---- MODULE Spec2Model ----
(***************************************************************************)
(* The per-session conversation engine of Mul_in_ONE: the session service  *)
(* (SessionService / SessionRuntime), its worker task, the event fan-out   *)
(* to subscribers, and the conversation loop of the runtime adapters.      *)
(*                                                                         *)
(* Texts are sequences of words of a small vocabulary; every word stands   *)
(* for the word followed by one blank, so that concatenating texts keeps   *)
(* the words apart.  Scores of the scheduler are in hundredths.            *)
(***************************************************************************)
EXTENDS Integers, Sequences, FiniteSets, TLC

VARIABLES
    adapter,          \* which RuntimeAdapter the service was built with
    participants,     \* record.participants of the session (persona names)
    store,            \* the session's messages in the repository
    request_queue,    \* SessionRuntime._request_queue
    subs,             \* subscribers: registration, queue, received events
    worker_ref,       \* SessionRuntime._worker (0 is None)
    tasks,            \* every worker task ever created
    streaming,        \* SessionRuntime._streaming
    last_stop_reason, \* SessionRuntime._last_stop_reason
    interrupt_flag,   \* interrupts._INTERRUPT_FLAGS[session_id]
    calls,            \* the service calls (enqueue_message, stop_session)
    emitted,          \* history: every event handed to _publish_event
    turn_order,       \* history: the calls whose messages the workers took
    next_id,          \* source of fresh message ids and turn ids
    settings,         \* the Settings the runtime adapter was built with
    scheduler,        \* a TurnScheduler driven directly, outside a session
    rag,              \* the RagQuery tool: its context, its config, its calls
    user_runtime,     \* NemoRuntimeAdapter._runtimes / _persona_cache of one user
    reply_stream,     \* one reply streamed through the special-token filter
    service,          \* a SessionService over several session ids
    lifecycle,        \* one session's runtimes and workers under concurrent calls
    user_cache        \* NemoRuntimeAdapter's per-user runtimes, cache and locks

vars == << adapter, participants, store, request_queue, subs, worker_ref,
           tasks, streaming, last_stop_reason, interrupt_flag, calls,
           emitted, turn_order, next_id, settings, scheduler, rag,
           user_runtime, reply_stream, service,
           lifecycle,
           user_cache >>

(* what no action of the session service or of its worker changes *)
apart == << settings, scheduler, rag, user_runtime, reply_stream, service,
          lifecycle,
          user_cache >>

(* the session, its runtime and its worker *)
engine == << adapter, participants, store, request_queue, subs, worker_ref,
             tasks, streaming, last_stop_reason, interrupt_flag, calls,
             emitted, turn_order, next_id >>

----------------------------------------------------------------------------
(* Bounds of the model *)

(* service calls (enqueue_message, stop_session) made on the session *)
MaxCalls == 3

(* of which enqueue_message *)
MaxEnqueues == 2

(* of which stop_session *)
MaxStops == 2

(* exceptions raised by the LLM stream and by the message store *)
MaxFaults == 1

(* worker tasks ever created for the session *)
MaxWorkers == 2

(* subscribers ever registered *)
MaxSubs == 2

(* chunks the LLM streams for one reply *)
MaxChunks == 1

(* rounds of one turn: stands for Settings.max_exchanges_per_turn *)
MaxExchanges == 2

(* next_turn calls made on a scheduler driven directly *)
MaxSchedulerCalls == 4

(* calls of the RagQuery tool *)
MaxRagCalls == 2

(* the largest Settings.max_exchanges_per_turn tried *)
MaxRounds == 4

(* the largest Settings.stop_patience tried *)
MaxPatience == 4

(* messages added to the memory of one turn *)
MaxMemory == 3

(* calls made on a SessionService over several session ids *)
MaxServiceCalls == 3

(* concurrent calls made on the SessionService for one session *)
MaxLifeCalls == 4

(* worker tasks ever created for that session *)
MaxLifeWorkers == 3

(* SessionRuntime objects ever created for that session *)
MaxLifeRuntimes == 2

(* messages waiting in the queue of one of these runtimes *)
MaxLifeQueue == 2

(* invocations of NemoRuntimeAdapter.invoke_stream that reach the cache *)
MaxCallers == 3

(* versions of the persona settings a user has had in the database *)
MaxPersonaVersions == 2

(* failures of MultiAgentRuntime.__aenter__ *)
MaxEnterFaults == 1

(* chunks of one reply streamed character by character *)
MaxStreamChunks == 2

(* characters of one reply streamed character by character *)
MaxStreamChars == 8

(* Program constants *)

(* Settings.memory_window *)
DefaultMemoryWindow == 8

(* SessionService(history_limit=50) *)
HistoryLimit == 50

(* Settings.max_agents_per_turn *)
DefaultMaxAgents == 2

(* PersonaState.cooldown *)
DefaultCooldown == 1

(* PersonaState.last_turn *)
InitialLastTurn == -10

(* TurnScheduler(silence_threshold=2) *)
SilenceThreshold == 2

(* Settings.stop_patience *)
StopPatience == 2

(* Settings.stop_heat_threshold, in hundredths *)
HeatThresholdPct == 60

(* Settings.stop_similarity_threshold, in hundredths *)
SimThresholdPct == 90

----------------------------------------------------------------------------
(* Small helpers *)

Min(a, b) == IF a <= b THEN a ELSE b

Max(a, b) == IF a >= b THEN a ELSE b

Range(s) == { s[i] : i \in 1..Len(s) }

Contains(s, x) == \E i \in 1..Len(s) : s[i] = x

RECURSIVE SumSeq(_)
SumSeq(s) == IF s = << >> THEN 0 ELSE Head(s) + SumSeq(Tail(s))

(* list[-n:] of Python for n >= 1 *)
LastN(s, n) == IF Len(s) <= n THEN s ELSE SubSeq(s, Len(s) - n + 1, Len(s))

(* e for e in s if e not in t, keeping the order of s *)
RECURSIVE AppendNew(_, _)
AppendNew(t, s) ==
    IF s = << >> THEN t
    ELSE AppendNew(IF Contains(t, Head(s)) THEN t ELSE Append(t, Head(s)), Tail(s))

----------------------------------------------------------------------------
(* Personas of the owning user (persona_settings.personas, in load order) *)

Personas == << "Ada", "Ben" >>

PersonaNames == Range(Personas)

Handle(p) == IF p = "Ada" THEN "ada" ELSE "ben"

Proactivity(p) == IF p = "Ada" THEN 30 ELSE 90

ParticipantChoices == { << >>, << "Ada" >> }

----------------------------------------------------------------------------
(* Texts *)

SpecialTokens == { "<|pad|>" }

StopWords == { "/stop", "stop" }

SoftCloseWords == { "goodnight" }

ClosingWords == { "goodnight" }

WordLen(w) ==
    CASE w = "hi" -> 3
      [] w = "goodnight" -> 10
      [] w = "/stop" -> 6
      [] w = "stop" -> 5
      [] w = "?" -> 2
      [] w = "@ada" -> 5
      [] w = "@ben" -> 5
      [] w = "<|pad|>" -> 7
      [] OTHER -> 8

TextLen(t) == SumSeq([i \in 1..Len(t) |-> WordLen(t[i])])

(* the words the similarity tokenizer keeps: runs of [A-Za-z0-9_] *)
SimTokens(w) ==
    CASE w = "hi" -> << "hi" >>
      [] w = "goodnight" -> << "goodnight" >>
      [] w = "/stop" -> << "stop" >>
      [] w = "stop" -> << "stop" >>
      [] w = "?" -> << >>
      [] w = "@ada" -> << "ada" >>
      [] w = "@ben" -> << "ben" >>
      [] w = "<|pad|>" -> << "pad" >>
      [] OTHER -> << w >>

(* the user messages tried: a stop command and a message naming Ben *)
UserTexts == { << "/stop" >>, << "@ben", "hi" >> }

(* the chunks an LLM stream may deliver: a word, or a special token *)
LLMChunks == { << "hi" >>, << "<|pad|>" >> }

ErrorText(p) == << "[Error]" >>

(* what str(e) of a failed LLM call may hold *)
ErrorMessages == { "30001", "401", "429", "timeout" }

(* the synthetic token _respond_stream yields for an error message *)
NoticeFor(error_msg) ==
    CASE error_msg = "30001" -> << "[balance]" >>
      [] error_msg = "401" -> << "[authentication]" >>
      [] error_msg = "429" -> << "[ratelimit]" >>
      [] OTHER -> << "[failed]", error_msg >>

Notices == { NoticeFor(e) : e \in ErrorMessages }

(* an invoker that swallows the failure of the LLM call *)
RespondStreamSilent(error_msg) == << >>

(* the tokens of _respond_stream when graph.ainvoke raises *)
RespondStreamFails(error_msg) == << NoticeFor(error_msg) >>


(* NemoRuntimeAdapter._filter_special_tokens *)
FilterSpecialTokens(text) == SelectSeq(text, LAMBDA w : w \notin SpecialTokens)

(* stop_cmd.match(content): the whole content is one stop word *)
IsStopCmd(text) == Len(text) = 1 /\ text[1] \in StopWords

(* soft_close_pattern.search(user_message_content) *)
IsSoftClosing(text) == \E i \in 1..Len(text) : text[i] \in SoftCloseWords

(* closing_pattern.search(full_reply) *)
IsClosingReply(text) == \E i \in 1..Len(text) : text[i] \in ClosingWords

HasQuestion(text) == Contains(text, "?")

(* the persona an "@token" word names: by handle, else by name; "" if none *)
AtMention(w) ==
    CASE w = "@ada" -> "Ada"
      [] w = "@ben" -> "Ben"
      [] OTHER -> ""

(* whether the handle or the name of p occurs in word w, lowercased *)
NamedIn(w, p) == AtMention(w) = p

RECURSIVE ExplicitMentions(_, _)
ExplicitMentions(text, acc) ==
    IF text = << >> THEN acc
    ELSE LET n == AtMention(Head(text))
         IN  ExplicitMentions(Tail(text),
                 IF n # "" /\ ~Contains(acc, n) THEN Append(acc, n) ELSE acc)

FirstIndex(text, p) ==
    IF \E i \in 1..Len(text) : NamedIn(text[i], p)
    THEN CHOOSE i \in 1..Len(text) :
            NamedIn(text[i], p) /\ \A j \in 1..(i - 1) : ~NamedIn(text[j], p)
    ELSE 0

(* candidates.sort(key=idx): a stable insertion of (idx, name) *)
RECURSIVE InsertByIdx(_, _)
InsertByIdx(sorted, c) ==
    IF sorted = << >> THEN << c >>
    ELSE IF c.idx < Head(sorted).idx THEN << c >> \o sorted
         ELSE << Head(sorted) >> \o InsertByIdx(Tail(sorted), c)

RECURSIVE SubstringMentions(_, _, _)
SubstringMentions(text, ps, sorted) ==
    IF ps = << >> THEN [i \in 1..Len(sorted) |-> sorted[i].name]
    ELSE LET idx == FirstIndex(text, Head(ps))
         IN  SubstringMentions(text, Tail(ps),
                 IF idx > 0 THEN InsertByIdx(sorted, [idx |-> idx, name |-> Head(ps)])
                 ELSE sorted)

(* NemoRuntimeAdapter._extract_tags *)
ExtractTags(text, ps) ==
    LET ordered == ExplicitMentions(text, << >>)
    IN  IF ordered # << >> THEN ordered ELSE SubstringMentions(text, ps, << >>)

----------------------------------------------------------------------------
(* Turn scheduler (scheduler.py) *)

NoiseSet == { -10, 10 }

NoiseChoices == [PersonaNames -> NoiseSet]

(* PersonaState(name, proactivity) as _build_scheduler creates it *)
NewPersonaState == [last_turn |-> InitialLastTurn, consecutive_speaks |-> 0]

(* NemoRuntimeAdapter._build_scheduler *)
BuildScheduler(ps, max_agents) ==
    [turn |-> 0,
     silence_count |-> 0,
     max_agents |-> IF max_agents <= 0 THEN Len(ps) ELSE max_agents,
     st |-> [p \in Range(ps) |-> NewPersonaState]]

(* the score of one persona that is neither mentioned nor cooling down *)
Score(sched, p, last_speaker, is_user_message, noise) ==
    LET since_last == sched.turn - sched.st[p].last_turn
        cs == sched.st[p].consecutive_speaks
    IN  Proactivity(p)
        - (IF cs >= 2 THEN 30 * cs ELSE 0)
        + (IF since_last > 5 THEN Min(30, since_last * 5) ELSE 0)
        + (IF last_speaker # "" /\ last_speaker # p /\ since_last > 1 THEN 15 ELSE 0)
        + (IF is_user_message /\ Proactivity(p) > 60 THEN 20 ELSE 0)
        + noise[p]

(* the candidates list without the cooldown exclusion *)
RECURSIVE CandidatesCoolingToo(_, _, _, _, _, _)
CandidatesCoolingToo(sched, ps, context_tags, last_speaker, is_user_message, noise) ==
    IF ps = << >> THEN << >>
    ELSE LET p == Head(ps)
             since_last == sched.turn - sched.st[p].last_turn
             rest == CandidatesCoolingToo(sched, Tail(ps), context_tags, last_speaker,
                                          is_user_message, noise)
         IN  IF Contains(context_tags, p) /\ since_last > 0
             THEN << [name |-> p, score |-> 10000] >> \o rest
             ELSE << [name |-> p,
                      score |-> Score(sched, p, last_speaker, is_user_message, noise)] >>
                  \o rest

(* the candidates list built by the first loop of next_turn *)
RECURSIVE Candidates(_, _, _, _, _, _)
Candidates(sched, ps, context_tags, last_speaker, is_user_message, noise) ==
    IF ps = << >> THEN << >>
    ELSE LET p == Head(ps)
             since_last == sched.turn - sched.st[p].last_turn
             rest == Candidates(sched, Tail(ps), context_tags, last_speaker,
                                is_user_message, noise)
         IN  IF Contains(context_tags, p) /\ since_last > 0
             THEN << [name |-> p, score |-> 10000] >> \o rest
             ELSE IF since_last <= DefaultCooldown
                  THEN rest
                  ELSE << [name |-> p,
                           score |-> Score(sched, p, last_speaker, is_user_message, noise)] >>
                       \o rest

(* candidates.sort(key=score, reverse=True): stable *)
RECURSIVE InsertByScore(_, _)
InsertByScore(sorted, c) ==
    IF sorted = << >> THEN << c >>
    ELSE IF c.score > Head(sorted).score THEN << c >> \o sorted
         ELSE << Head(sorted) >> \o InsertByScore(Tail(sorted), c)

RECURSIVE SortByScore(_, _)
SortByScore(cands, sorted) ==
    IF cands = << >> THEN sorted
    ELSE SortByScore(Tail(cands), InsertByScore(sorted, Head(cands)))

(* the selection loop without the cap on the number chosen *)
RECURSIVE ChooseUncapped(_, _, _, _)
ChooseUncapped(cands, chosen, threshold, max_agents) ==
    IF cands = << >> THEN chosen
    ELSE LET c == Head(cands)
             take ==
                 /\ c.score >= threshold
                 /\ \/ Len(chosen) = 0 /\ c.score >= 40
                    \/ c.score >= threshold + 10 * Len(chosen)
         IN  ChooseUncapped(Tail(cands), IF take THEN Append(chosen, c.name) ELSE chosen,
                            threshold, max_agents)

(* the selection loop over the sorted candidates *)
RECURSIVE Choose(_, _, _, _)
Choose(cands, chosen, threshold, max_agents) ==
    IF cands = << >> THEN chosen
    ELSE LET c == Head(cands)
             take ==
                 /\ c.score >= threshold
                 /\ Len(chosen) < max_agents
                 /\ \/ Len(chosen) = 0 /\ c.score >= 40
                    \/ Len(chosen) < max_agents /\ c.score >= threshold + 10 * Len(chosen)
         IN  Choose(Tail(cands), IF take THEN Append(chosen, c.name) ELSE chosen,
                    threshold, max_agents)

(* the state update that forgets when the chosen personas spoke *)
UpdateStatesKeepsLastTurn(sched, chosen) ==
    [p \in DOMAIN sched.st |->
        IF Contains(chosen, p)
        THEN [sched.st[p] EXCEPT !.consecutive_speaks = @ + 1]
        ELSE [sched.st[p] EXCEPT !.consecutive_speaks = 0]]

(* the state update shared by both exits of next_turn *)
UpdateStates(sched, chosen) ==
    [p \in DOMAIN sched.st |->
        IF Contains(chosen, p)
        THEN [last_turn |-> sched.turn,
              consecutive_speaks |-> sched.st[p].consecutive_speaks + 1]
        ELSE [sched.st[p] EXCEPT !.consecutive_speaks = 0]]

(* TurnScheduler.next_turn *)
NextTurn(sched, ps, context_tags, last_speaker, is_user_message, noise) ==
    LET cands == Candidates(sched, ps, context_tags, last_speaker, is_user_message, noise)
        mentioned == SelectSeq(cands, LAMBDA c : c.score >= 10000)
        mentioned_speakers == [i \in 1..Len(mentioned) |-> mentioned[i].name]
        sorted == SortByScore(cands, << >>)
        threshold == IF sched.silence_count >= SilenceThreshold THEN 30 ELSE 50
        picked == Choose(sorted, << >>, threshold, sched.max_agents)
        chosen == IF picked = << >> /\ is_user_message /\ sorted # << >>
                  THEN << sorted[1].name >> ELSE picked
    IN  IF mentioned_speakers # << >>
        THEN [speakers |-> mentioned_speakers,
              sched |-> [sched EXCEPT !.st = UpdateStates(sched, mentioned_speakers),
                                      !.silence_count = 0,
                                      !.turn = sched.turn + 1]]
        ELSE [speakers |-> chosen,
              sched |-> [sched EXCEPT !.st = UpdateStates(sched, chosen),
                                      !.silence_count =
                                          IF chosen # << >> THEN 0
                                          ELSE sched.silence_count + 1,
                                      !.turn = sched.turn + 1]]

----------------------------------------------------------------------------
(* Events *)

(* an event as an adapter yields it; sender "" when the data holds none *)
RawEvent(type, sender, content, reason) ==
    [event |-> type, sender |-> sender, content |-> content, reason |-> reason]

(* a SessionStreamEvent as _publish_event receives it.  turn, seq and     *)
(* inflight are history: the turn that produced the event (0: none), its  *)
(* position among the published events, and for a force_stop the turns    *)
(* that were streaming when it was issued                                 *)
StreamEvent(type, turn, sender, mid, content, reason, persisted) ==
    [event |-> type, turn |-> turn, sender |-> sender, message_id |-> mid,
     content |-> content, reason |-> reason, persisted |-> persisted,
     inflight |-> {}, was_streaming |-> FALSE, seq |-> 0]

AgentEvents == { "agent.start", "agent.chunk", "agent.end" }

----------------------------------------------------------------------------
(* Smart-stop policy of the conversation loop (runtime_adapter.py) *)

NumPersonas == Len(Personas)

(* heats are kept multiplied by HeatScale *)
HeatScale == 800 * Max(1, NumPersonas)

FlatTokens(text) ==
    LET F[i \in 0..Len(text)] ==
            IF i = 0 THEN << >> ELSE F[i - 1] \o SimTokens(text[i])
    IN  F[Len(text)]

(* NemoRuntimeAdapter._tokenize_for_similarity: the count of token k *)
TokenCount(tokens, k) == Cardinality({ i \in 1..Len(tokens) : tokens[i] = k })

Dot(a, b) ==
    LET keys == Range(a) \cap Range(b)
        ks == CHOOSE q \in [1..Cardinality(keys) -> keys] :
                  \A i, j \in 1..Cardinality(keys) : i # j => q[i] # q[j]
    IN  SumSeq([i \in 1..Cardinality(keys) |-> TokenCount(a, ks[i]) * TokenCount(b, ks[i])])

NormSq(a) == Dot(a, a)

(* NemoRuntimeAdapter._cosine_similarity(a, b) >= pct / 100 *)
CosineAtLeast(a, b, pct) ==
    IF a = << >> \/ b = << >> \/ Dot(a, b) = 0
    THEN pct <= 0
    ELSE 10000 * Dot(a, b) * Dot(a, b) >= pct * pct * NormSq(a) * NormSq(b)

(* the heat of a round, times HeatScale *)
Heat(round_text, round_speakers, seen_speakers, seen_mentions) ==
    LET n == Max(1, NumPersonas)
        new_participants == SelectSeq(round_speakers, LAMBDA sp : sp \notin seen_speakers)
        round_mentions == ExtractTags(round_text, Personas)
        new_mentions == SelectSeq(round_mentions, LAMBDA m : m \notin seen_mentions)
        raw == 6 * n * Min(TextLen(round_text), 80)
               + 160 * Len(new_participants)
               + (IF HasQuestion(round_text) THEN 160 * n ELSE 0)
               + Min(160 * n, 80 * n * Len(new_mentions))
    IN  Max(0, Min(HeatScale, raw))

(* deque(maxlen).append *)
DequeAppend(window, x, maxlen) ==
    IF Len(window) >= maxlen THEN Append(Tail(window), x) ELSE Append(window, x)

----------------------------------------------------------------------------
(* Conversation loop of NemoRuntimeAdapter.invoke_stream.  The locals    *)
(* carry history fields: responded_before and last_speaker_before, the   *)
(* personas that had responded and the last speaker when the current     *)
(* round began; llm_error, the error the LLM call of the current speaker *)
(* ended with ("" when it has not); closed_before, whether a round of    *)
(* the turn was left with closing_detected set.                          *)

(* the fields of Settings the loop reads, at the values of a deployment   *)
(* that leaves them alone, the number of rounds kept small                *)
DefaultSettings ==
    [max_agents_per_turn |-> DefaultMaxAgents,
     max_exchanges_per_turn |-> MaxExchanges,
     stop_patience |-> StopPatience]

NoLoop ==
    [exchange_round |-> 0, max_exchanges |-> 0, soft_closing |-> FALSE,
     user_message |-> << >>, last_speaker |-> "", is_first_round |-> TRUE,
     context_tags |-> << >>, user_selected |-> << >>,
     sched |-> BuildScheduler(<< >>, 0), memory |-> << >>, responded |-> {},
     heat_window |-> << >>, seen_speakers |-> {}, seen_mentions |-> {},
     prev_round_vec |-> << >>, high_sim_streak |-> 0,
     speakers |-> << >>, sp |-> 0, round_text_total |-> << >>,
     round_speakers |-> << >>, closing_detected |-> FALSE,
     full_reply |-> << >>, chunk_count |-> 0,
     responded_before |-> {}, llm_error |-> "", last_speaker_before |-> "",
     closed_before |-> FALSE]

NameOfHandle(h) ==
    IF \E p \in PersonaNames : Handle(p) = h
    THEN CHOOSE p \in PersonaNames : Handle(p) = h
    ELSE ""

(* names of the target handles that belong to a persona of the user *)
SelectedNames(targets) ==
    LET names == [i \in 1..Len(targets) |-> NameOfHandle(targets[i])]
    IN  SelectSeq(names, LAMBDA n : n # "")

(* the locals of a loop that a soft-closing message does not shorten *)
InitLoopAllRounds(msg) ==
    LET tags == ExtractTags(msg.content, Personas)
        selected == SelectedNames(msg.target_personas)
        all_tags == AppendNew(tags, selected)
    IN  [NoLoop EXCEPT
            !.max_exchanges = Max(1, settings.max_exchanges_per_turn),
            !.soft_closing = IsSoftClosing(msg.content),
            !.user_message = msg.content,
            !.last_speaker = msg.sender,
            !.context_tags = all_tags,
            !.user_selected = selected,
            !.sched = BuildScheduler(Personas, settings.max_agents_per_turn),
            !.memory = Append(msg.history, [sender |-> msg.sender, content |-> msg.content]),
            !.seen_mentions = Range(all_tags)]

(* the locals of invoke_stream when the loop is about to start *)
InitLoop(msg) ==
    LET tags == ExtractTags(msg.content, Personas)
        selected == SelectedNames(msg.target_personas)
        all_tags == AppendNew(tags, selected)
        soft == IsSoftClosing(msg.content)
    IN  [NoLoop EXCEPT
            !.max_exchanges = IF soft THEN 1 ELSE Max(1, settings.max_exchanges_per_turn),
            !.soft_closing = soft,
            !.user_message = msg.content,
            !.last_speaker = msg.sender,
            !.context_tags = all_tags,
            !.user_selected = selected,
            !.sched = BuildScheduler(Personas, settings.max_agents_per_turn),
            !.memory = Append(msg.history, [sender |-> msg.sender, content |-> msg.content]),
            !.seen_mentions = Range(all_tags)]

(* what a synchronous stretch of the loop leaves behind: the locals, the   *)
(* events yielded, whether the generator returned, and whether the         *)
(* interrupt flag was consumed                                             *)
LoopOutcome(l, out, fin, consumed) ==
    [l |-> l, out |-> out, fin |-> fin, consumed |-> consumed]

(* the smart-stop bookkeeping at the end of a round *)
EvaluateRound(l) ==
    LET heat == Heat(l.round_text_total, l.round_speakers, l.seen_speakers, l.seen_mentions)
        round_mentions == ExtractTags(l.round_text_total, Personas)
        new_mentions == SelectSeq(round_mentions, LAMBDA m : m \notin l.seen_mentions)
        curr_vec == FlatTokens(l.round_text_total)
        redundant == /\ CosineAtLeast(l.prev_round_vec, curr_vec, SimThresholdPct)
                     /\ ~HasQuestion(l.round_text_total)
                     /\ new_mentions = << >>
    IN  [l EXCEPT
            !.heat_window = DequeAppend(@, heat, Max(1, settings.stop_patience)),
            !.seen_speakers = @ \cup Range(l.round_speakers),
            !.seen_mentions = @ \cup Range(round_mentions),
            !.high_sim_streak = IF redundant THEN @ + 1 ELSE 0,
            !.prev_round_vec = curr_vec]

(* the stop decision taken on the updated windows *)
SmartStop(l) ==
    /\ Len(l.heat_window) >= Max(1, settings.stop_patience)
    /\ ~l.soft_closing
    /\ \/ l.high_sim_streak >= 2
       \/ SumSeq(l.heat_window) * 100 < HeatThresholdPct * HeatScale * Len(l.heat_window)

(* the loop without the early end for targeted personas *)
AllSelectedIgnored(l) == FALSE

AllSelectedResponded(l) ==
    /\ l.user_selected # << >>
    /\ \A i \in 1..Len(l.user_selected) : l.user_selected[i] \in l.responded

RECURSIVE RoundBegin(_, _, _)
RECURSIVE SpeakerBegin(_, _, _, _)

(* the end of a round without the return on a closing phrase *)
RoundEndIgnoresClosing(l, out, flag) ==
    LET l2 == EvaluateRound(l)
    IN  IF SmartStop(l2) THEN { LoopOutcome(l2, out, TRUE, FALSE) }
        ELSE IF AllSelectedResponded(l2) THEN { LoopOutcome(l2, out, TRUE, FALSE) }
        ELSE IF flag
             THEN { LoopOutcome(l2,
                        Append(out, RawEvent("session.interrupted", "", << >>,
                                             "user_message_pending")),
                        TRUE, TRUE) }
             ELSE RoundBegin([l2 EXCEPT !.is_first_round = FALSE,
                                        !.exchange_round = @ + 1], out, flag)

(* the end of a round: closing phrase, smart stop, targets, interrupt *)
RoundEnd(l, out, flag) ==
    IF l.closing_detected
    THEN { LoopOutcome(l, Append(out, RawEvent("session.stopped", "", << >>, "closing_phrase")),
                       TRUE, FALSE) }
    ELSE LET l2 == EvaluateRound(l)
         IN  IF SmartStop(l2) THEN { LoopOutcome(l2, out, TRUE, FALSE) }
             ELSE IF AllSelectedResponded(l2) THEN { LoopOutcome(l2, out, TRUE, FALSE) }
             ELSE IF flag
                  THEN { LoopOutcome(l2,
                             Append(out, RawEvent("session.interrupted", "", << >>,
                                                  "user_message_pending")),
                             TRUE, TRUE) }
                  ELSE RoundBegin([l2 EXCEPT !.is_first_round = FALSE,
                                             !.exchange_round = @ + 1], out, flag)

(* SpeakerBegin without the yield of agent.start *)
SpeakerBeginNoStart(l, i, out, flag) ==
    IF i > Len(l.speakers) THEN RoundEnd(l, out, flag)
    ELSE LET p == l.speakers[i]
             l1 == [l EXCEPT !.round_speakers = Append(@, p), !.sp = i,
                             !.full_reply = << >>, !.chunk_count = 0,
                             !.llm_error = ""]
         IN  IF l.exchange_round = 0 \/ l.soft_closing \/ p \notin l.responded
             THEN { LoopOutcome(l1, out, FALSE, FALSE) }
             ELSE IF p = l.last_speaker
                  THEN SpeakerBegin(l1, i + 1, out, flag)
                  ELSE { LoopOutcome(l1, out, FALSE, FALSE) }

(* the head of the loop over the speakers of a round, up to the LLM call *)
SpeakerBegin(l, i, out, flag) ==
    IF i > Len(l.speakers) THEN RoundEnd(l, out, flag)
    ELSE LET p == l.speakers[i]
             out1 == Append(out, RawEvent("agent.start", p, << >>, ""))
             l1 == [l EXCEPT !.round_speakers = Append(@, p), !.sp = i,
                             !.full_reply = << >>, !.chunk_count = 0,
                             !.llm_error = ""]
         IN  IF l.exchange_round = 0 \/ l.soft_closing \/ p \notin l.responded
             THEN { LoopOutcome(l1, out1, FALSE, FALSE) }
             ELSE IF p = l.last_speaker
                  THEN SpeakerBegin(l1, i + 1, out1, flag)
                  ELSE { LoopOutcome(l1, out1, FALSE, FALSE) }

(* the head of a round: the scheduler call and the two early exits *)
RoundBegin(l, out, flag) ==
    IF l.exchange_round >= l.max_exchanges
    THEN { LoopOutcome(l, out, TRUE, FALSE) }
    ELSE UNION {
        LET tags == IF l.exchange_round = 0 THEN l.context_tags ELSE l.user_selected
            r == NextTurn(l.sched, Personas, tags, l.last_speaker, l.is_first_round, noise)
            l1 == [l EXCEPT !.sched = r.sched, !.speakers = r.speakers, !.sp = 0,
                            !.round_text_total = << >>, !.round_speakers = << >>,
                            !.closing_detected = FALSE,
                            !.responded_before = l.responded,
                            !.last_speaker_before = l.last_speaker,
                            !.closed_before = @ \/ l.closing_detected]
        IN  IF r.speakers = << >> THEN { LoopOutcome(l1, out, TRUE, FALSE) }
            ELSE IF Len(r.speakers) = 1 /\ r.speakers[1] = l.last_speaker /\ ~l.is_first_round
                 THEN RoundBegin([l1 EXCEPT !.exchange_round = @ + 1], out, flag)
                 ELSE SpeakerBegin(l1, 1, out, flag)
        : noise \in NoiseChoices }

(* the bookkeeping after a speaker's agent.end, then on to the next one *)
AfterEnd(l, flag) ==
    LET p == l.speakers[l.sp]
        new_tags == ExtractTags(l.full_reply, Personas)
        extended == l.context_tags \o new_tags
        l1 == [l EXCEPT
                  !.memory = Append(@, [sender |-> p, content |-> l.full_reply]),
                  !.last_speaker = p,
                  !.responded = @ \cup {p},
                  !.round_text_total = @ \o l.full_reply,
                  !.context_tags = IF Len(extended) > 32 THEN AppendNew(<< >>, extended)
                                   ELSE extended,
                  !.closing_detected = @ \/ IsClosingReply(l.full_reply)]
    IN  SpeakerBegin(l1, l.sp + 1, << >>, flag)

----------------------------------------------------------------------------
(* SessionRuntime: tasks, trackers, publishing *)

NoMsg == [call |-> 0, sender |-> "", content |-> << >>, history |-> << >>,
          target_personas |-> << >>]

NoPending == [sender |-> "", message_id |-> 0, content |-> << >>]

NoTask == [status |-> "none", cancel_req |-> FALSE, pc |-> "none", turn |-> 0,
           msg |-> NoMsg, l |-> NoLoop, trackers |-> << >>, pending |-> NoPending]

(* a task created by asyncio.create_task(self._worker_loop()) *)
NewTask == [NoTask EXCEPT !.status = "alive", !.pc = "get"]

WorkerIds == 1..MaxWorkers

SubIds == 1..MaxSubs

(* asyncio.Task.done() *)
TaskDone(t) == t.status \in { "cancelled", "failed" }

(* the positions of a worker inside "async for raw_event in stream" *)
StreamPcs == { "enter", "llm", "persist" }

HasTracker(trackers, sender) == \E i \in 1..Len(trackers) : trackers[i].sender = sender

TrackerOf(trackers, sender) ==
    trackers[CHOOSE i \in 1..Len(trackers) : trackers[i].sender = sender]

(* a handler of agent.end that leaves the tracker in place *)
PopTrackerKeeps(trackers, sender) == trackers

(* trackers.pop(sender, None) *)
PopTracker(trackers, sender) == SelectSeq(trackers, LAMBDA t : t.sender # sender)

JoinBuffer(buffer) ==
    LET F[i \in 0..Len(buffer)] == IF i = 0 THEN << >> ELSE F[i - 1] \o buffer[i]
    IN  F[Len(buffer)]

(* SessionRuntime._handle_adapter_event for the events whose handling does *)
(* not await the repository: everything but an agent.end with content      *)
RECURSIVE HandleSync(_, _, _, _, _)
HandleSync(trackers, raws, turn, idc, acc) ==
    IF raws = << >> THEN [trackers |-> trackers, events |-> acc, idc |-> idc]
    ELSE LET e == Head(raws)
             tracked == e.event \in AgentEvents /\ e.sender # ""
             fresh == tracked /\ ~HasTracker(trackers, e.sender)
             t1 == IF fresh
                   THEN Append(trackers, [sender |-> e.sender, id |-> idc, buffer |-> << >>])
                   ELSE trackers
             mid == IF tracked THEN TrackerOf(t1, e.sender).id ELSE 0
             t2 == IF tracked /\ e.event = "agent.chunk"
                   THEN [i \in 1..Len(t1) |->
                            IF t1[i].sender = e.sender
                            THEN [t1[i] EXCEPT !.buffer = Append(@, e.content)]
                            ELSE t1[i]]
                   ELSE IF tracked /\ e.event = "agent.end"
                        THEN PopTracker(t1, e.sender)
                        ELSE t1
             content == IF tracked /\ e.event = "agent.end" /\ e.content = << >>
                        THEN JoinBuffer(TrackerOf(t1, e.sender).buffer)
                        ELSE e.content
         IN  HandleSync(t2, Tail(raws), turn, IF fresh THEN idc + 1 ELSE idc,
                        Append(acc, StreamEvent(e.event, turn, e.sender, mid, content,
                                                e.reason, FALSE)))

(* the flush of the trackers left when a stream ends (worker loop) *)
FlushEvents(trackers, turn) ==
    [i \in 1..Len(trackers) |->
        StreamEvent("agent.end", turn, trackers[i].sender, trackers[i].id,
                    JoinBuffer(trackers[i].buffer), "",
                    JoinBuffer(trackers[i].buffer) # << >>)]

StoredAgent(e) == [sender |-> e.sender, content |-> e.content, call |-> 0]

FlushStores(trackers, turn) ==
    LET evs == SelectSeq(FlushEvents(trackers, turn), LAMBDA e : e.persisted)
    IN  [i \in 1..Len(evs) |-> StoredAgent(evs[i])]

Numbered(evs, base) == [i \in 1..Len(evs) |-> [evs[i] EXCEPT !.seq = base + i]]

(* PublishTo with the new events put in front of the waiting ones *)
PublishToFront(ss, evs, base) ==
    [s \in DOMAIN ss |->
        IF ss[s].state = "open"
        THEN [ss[s] EXCEPT !.queue = Numbered(evs, base) \o @]
        ELSE ss[s]]

(* SessionRuntime._publish_event, for a run of events published without a *)
(* suspension in between: every registered queue gets every event         *)
PublishTo(ss, evs, base) ==
    [s \in DOMAIN ss |->
        IF ss[s].state = "open"
        THEN [ss[s] EXCEPT !.queue = @ \o Numbered(evs, base)]
        ELSE ss[s]]

Publish(evs) ==
    /\ emitted' = emitted \o Numbered(evs, Len(emitted))
    /\ subs' = PublishTo(subs, evs, Len(emitted))

(* SessionRuntime.start, called by SessionService._ensure_runtime *)
NeedsStart == worker_ref = 0 \/ TaskDone(tasks[worker_ref])

CanStart == ~NeedsStart \/ \E w \in WorkerIds : tasks[w].status = "none"

FreeTask == CHOOSE w \in WorkerIds :
                tasks[w].status = "none" /\ \A v \in 1..(w - 1) : tasks[v].status # "none"

StartedRef == IF NeedsStart THEN FreeTask ELSE worker_ref

StartedTasks == IF NeedsStart THEN [tasks EXCEPT ![FreeTask] = NewTask] ELSE tasks

----------------------------------------------------------------------------
(* The worker task: SessionRuntime._worker_loop *)

(* the failures of the LLM and of the repository so far *)
FaultCount ==
    Cardinality({ i \in 1..Len(emitted) : /\ emitted[i].event = "agent.chunk"
                                          /\ emitted[i].content \in { ErrorText("") } \cup Notices })
    + Cardinality({ w \in WorkerIds : tasks[w].status = "failed" })

Runnable(w) == tasks[w].status = "alive" /\ ~tasks[w].cancel_req

(* the worker goes on after a synchronous stretch o of the adapter: the   *)
(* yielded events are handled and published; when the stream has ended,   *)
(* _streaming is reset, the trackers are flushed and the worker is back   *)
(* at the queue.  tk is the task, pre the events published first, st the  *)
(* store so far                                                           *)
Continue(w, tk, pre, st, o) ==
    LET h == HandleSync(tk.trackers, o.out, tk.turn, next_id, << >>)
        flush == IF o.fin THEN FlushEvents(h.trackers, tk.turn) ELSE << >>
    IN  /\ Publish(pre \o h.events \o flush)
        /\ next_id' = h.idc
        /\ tasks' = [tasks EXCEPT ![w] =
                        IF o.fin THEN NewTask
                        ELSE [tk EXCEPT !.pc = "llm", !.l = o.l, !.trackers = h.trackers,
                                        !.pending = NoPending]]
        /\ streaming' = IF o.fin THEN FALSE ELSE streaming
        /\ interrupt_flag' = IF o.consumed THEN FALSE ELSE interrupt_flag
        /\ store' = IF o.fin THEN st \o FlushStores(h.trackers, tk.turn) ELSE st

(* message = await self._request_queue.get(); self._streaming = True *)
WorkerGet(w) ==
    /\ Runnable(w)
    /\ tasks[w].pc = "get"
    /\ request_queue # << >>
    /\ request_queue' = Tail(request_queue)
    /\ tasks' = [tasks EXCEPT ![w] = [@ EXCEPT !.pc = "enter", !.turn = next_id,
                                               !.msg = Head(request_queue)]]
    /\ next_id' = next_id + 1
    /\ streaming' = TRUE
    /\ turn_order' = Append(turn_order, Head(request_queue).call)
    /\ UNCHANGED << apart, adapter, participants, store, subs, worker_ref, last_stop_reason,
                    interrupt_flag, calls, emitted >>

(* StubRuntimeAdapter.invoke_stream after its sleep(0): start, chunk and  *)
(* end of one reply; the end waits for the repository                     *)
StubEnter(w) ==
    LET tk == tasks[w]
        target == IF tk.msg.target_personas # << >> THEN tk.msg.target_personas[1]
                  ELSE "assistant"
        content == << "user:" >> \o tk.msg.content
        h == HandleSync(tk.trackers,
                        << RawEvent("agent.start", target, << >>, ""),
                           RawEvent("agent.chunk", target, content, "") >>,
                        tk.turn, next_id, << >>)
    IN  /\ Publish(h.events)
        /\ next_id' = h.idc
        /\ tasks' = [tasks EXCEPT ![w] =
                        [tk EXCEPT !.pc = "persist", !.trackers = h.trackers,
                                   !.pending = [sender |-> target,
                                                message_id |-> TrackerOf(h.trackers, target).id,
                                                content |-> content]]]
        /\ UNCHANGED << store, streaming, interrupt_flag >>

(* NemoRuntimeAdapter.invoke_stream from its start to the first LLM call *)
NemoEnter(w) ==
    \E o \in RoundBegin(InitLoop(tasks[w].msg), << >>, interrupt_flag) :
        Continue(w, tasks[w], << >>, store, o)

AdapterEnter(w) ==
    /\ Runnable(w)
    /\ tasks[w].pc = "enter"
    /\ IF adapter = "stub" THEN StubEnter(w) ELSE NemoEnter(w)
    /\ UNCHANGED << apart, adapter, participants, request_queue, worker_ref, last_stop_reason,
                    calls, turn_order >>

(* one chunk arrives from runtime.invoke_stream *)
LLMChunk(w, chunk) ==
    LET tk == tasks[w]
        text == FilterSpecialTokens(chunk)
        h == HandleSync(tk.trackers,
                        IF text # << >> THEN << RawEvent("agent.chunk", "", text, "") >>
                        ELSE << >>,
                        tk.turn, next_id, << >>)
    IN  /\ Runnable(w)
        /\ tk.pc = "llm"
        /\ tk.l.chunk_count < MaxChunks
        /\ tk.l.llm_error = ""
        /\ Publish(h.events)
        /\ next_id' = h.idc
        /\ tasks' = [tasks EXCEPT ![w] =
                        [tk EXCEPT !.trackers = h.trackers,
                                   !.l = [@ EXCEPT !.chunk_count = @ + 1,
                                                   !.full_reply = @ \o text]]]
        /\ UNCHANGED << apart, adapter, participants, store, request_queue, worker_ref, streaming,
                        last_stop_reason, interrupt_flag, calls, turn_order >>

(* graph.ainvoke raises inside _respond_stream, before any token: the     *)
(* invoker yields its synthetic token and ends; the adapter treats the    *)
(* token as any other chunk                                               *)
LLMFails(w, error_msg) ==
    LET tk == tasks[w]
        tokens == RespondStreamFails(error_msg)
        text == IF tokens = << >> THEN << >> ELSE FilterSpecialTokens(tokens[1])
        h == HandleSync(tk.trackers,
                        IF text # << >> THEN << RawEvent("agent.chunk", "", text, "") >>
                        ELSE << >>,
                        tk.turn, next_id, << >>)
    IN  /\ Runnable(w)
        /\ tk.pc = "llm"
        /\ tk.l.chunk_count = 0
        /\ tk.l.llm_error = ""
        /\ FaultCount < MaxFaults
        /\ Publish(h.events)
        /\ next_id' = h.idc
        /\ tasks' = [tasks EXCEPT ![w] =
                        [tk EXCEPT !.trackers = h.trackers,
                                   !.l = [@ EXCEPT !.chunk_count = Len(tokens),
                                                   !.full_reply = @ \o text,
                                                   !.llm_error = error_msg]]]
        /\ UNCHANGED << apart, adapter, participants, store, request_queue, worker_ref, streaming,
                        last_stop_reason, interrupt_flag, calls, turn_order >>

(* the adapter yields agent.end for the current speaker; the handler      *)
(* persists a non-empty reply before it publishes the event               *)
EndOfReply(w, tk, pre) ==
    LET p == tk.l.speakers[tk.l.sp]
        h0 == HandleSync(tk.trackers, << RawEvent("agent.start", p, << >>, "") >>,
                         tk.turn, next_id, << >>)
        known == HasTracker(tk.trackers, p)
        trackers == IF known THEN tk.trackers ELSE h0.trackers
        idc == IF known THEN next_id ELSE h0.idc
        final_content == IF tk.l.full_reply # << >> THEN tk.l.full_reply
                         ELSE JoinBuffer(TrackerOf(trackers, p).buffer)
    IN  IF final_content # << >>
        THEN /\ Publish(pre)
             /\ next_id' = idc
             /\ tasks' = [tasks EXCEPT ![w] =
                             [tk EXCEPT !.pc = "persist", !.trackers = trackers,
                                        !.pending = [sender |-> p,
                                                     message_id |-> TrackerOf(trackers, p).id,
                                                     content |-> final_content]]]
             /\ UNCHANGED << store, streaming, interrupt_flag >>
        ELSE \E o \in AfterEnd(tk.l, interrupt_flag) :
                Continue(w, [tk EXCEPT !.trackers = PopTracker(trackers, p)],
                         Append(pre, StreamEvent("agent.end", tk.turn, p,
                                                 TrackerOf(trackers, p).id, << >>, "", FALSE)),
                         store, o)

(* runtime.invoke_stream is exhausted *)
LLMEnd(w) ==
    /\ Runnable(w)
    /\ tasks[w].pc = "llm"
    /\ EndOfReply(w, tasks[w], << >>)
    /\ UNCHANGED << apart, adapter, participants, request_queue, worker_ref, last_stop_reason,
                    calls, turn_order >>

(* runtime.invoke_stream raises: the error text is yielded as a chunk and *)
(* becomes the reply                                                      *)
LLMRaise(w) ==
    LET tk == tasks[w]
        err == ErrorText(tk.l.speakers[tk.l.sp])
        h == HandleSync(tk.trackers, << RawEvent("agent.chunk", "", err, "") >>,
                        tk.turn, next_id, << >>)
    IN  /\ Runnable(w)
        /\ tk.pc = "llm"
        /\ tk.l.llm_error = ""
        /\ FaultCount < MaxFaults
        /\ EndOfReply(w, [tk EXCEPT !.l = [@ EXCEPT !.full_reply = err]], h.events)
        /\ UNCHANGED << apart, adapter, participants, request_queue, worker_ref, last_stop_reason,
                        calls, turn_order >>

(* repository.add_message returns in the handler of agent.end *)
PersistOk(w) ==
    LET tk == tasks[w]
        e == StreamEvent("agent.end", tk.turn, tk.pending.sender, tk.pending.message_id,
                         tk.pending.content, "", TRUE)
        tk1 == [tk EXCEPT !.trackers = PopTracker(@, tk.pending.sender),
                          !.pending = NoPending]
        st == Append(store, StoredAgent(e))
    IN  /\ Runnable(w)
        /\ tk.pc = "persist"
        /\ IF adapter = "stub"
           THEN Continue(w, tk1, << e >>, st, LoopOutcome(NoLoop, << >>, TRUE, FALSE))
           ELSE \E o \in AfterEnd(tk.l, interrupt_flag) : Continue(w, tk1, << e >>, st, o)
        /\ UNCHANGED << apart, adapter, participants, request_queue, worker_ref, last_stop_reason,
                        calls, turn_order >>

(* repository.add_message raises in the handler of agent.end: the         *)
(* exception leaves _worker_loop (except: raise; finally: _streaming)     *)
PersistFail(w) ==
    /\ Runnable(w)
    /\ tasks[w].pc = "persist"
    /\ FaultCount < MaxFaults
    /\ tasks' = [tasks EXCEPT ![w] = [NoTask EXCEPT !.status = "failed",
                                                     !.turn = tasks[w].turn]]
    /\ streaming' = FALSE
    /\ UNCHANGED << apart, adapter, participants, store, request_queue, subs, worker_ref,
                    last_stop_reason, interrupt_flag, calls, emitted, turn_order, next_id >>

(* the stream of the adapter raises while a reply is being produced: the  *)
(* exception leaves _worker_loop (except Exception: raise; finally:       *)
(* _streaming = False) before the flush of the trackers                   *)
StreamRaises(w) ==
    /\ Runnable(w)
    /\ tasks[w].pc = "llm"
    /\ FaultCount < MaxFaults
    /\ tasks' = [tasks EXCEPT ![w] = [NoTask EXCEPT !.status = "failed",
                                                     !.turn = tasks[w].turn]]
    /\ streaming' = FALSE
    /\ UNCHANGED << apart, adapter, participants, store, request_queue, subs, worker_ref,
                    last_stop_reason, interrupt_flag, calls, emitted, turn_order, next_id >>

(* CancelledError is thrown into the worker at its await *)
WorkerCancelled(w) ==
    /\ tasks[w].status = "alive"
    /\ tasks[w].cancel_req
    /\ tasks' = [tasks EXCEPT ![w] = [NoTask EXCEPT !.status = "cancelled",
                                                     !.turn = tasks[w].turn]]
    /\ streaming' = IF tasks[w].pc \in StreamPcs THEN FALSE ELSE streaming
    /\ UNCHANGED << apart, adapter, participants, store, request_queue, subs, worker_ref,
                    last_stop_reason, interrupt_flag, calls, emitted, turn_order, next_id >>

----------------------------------------------------------------------------
(* Service calls: SessionService.enqueue_message and stop_session *)

(* the record of one service call; forced and during are history: whether *)
(* the call took the explicit-stop branch, and the turns that were        *)
(* streaming when an ordinary message arrived                             *)
NewCall(kind, pc, content, forced, during) ==
    [kind |-> kind, pc |-> pc, content |-> content, awaiting |-> 0,
     forced |-> forced, during |-> during]

CallCount(kind) == Cardinality({ c \in 1..Len(calls) : calls[c].kind = kind })

(* the turns that are inside their stream (history for the stop event) *)
InFlight(tks) ==
    { tks[w].turn : w \in { v \in WorkerIds : tks[v].status = "alive" /\ tks[v].pc \in StreamPcs } }

StoppedEvent(reason, tks) ==
    [StreamEvent("session.stopped", 0, "", 0, << >>,
                 IF reason = "" THEN "force_stop" ELSE reason, FALSE)
        EXCEPT !.inflight = InFlight(tks), !.was_streaming = streaming]

(* where SessionRuntime.stop leaves its caller: it cancels the worker and *)
(* awaits it; a task that is already done answers the await at once       *)
(* Resume without the return after force_stop: the stop command falls    *)
(* through to add_message                                                 *)
ResumeFallsThrough(kind, after) ==
    IF kind = "enqueue" /\ after \in { "raised", "returned" } THEN "add" ELSE after

(* where the caller of force_stop goes on: enqueue_message returns after   *)
(* it, and its "except Exception: pass" lets a failure fall through       *)
Resume(kind, after) ==
    IF after = "raised" /\ kind = "enqueue" THEN "add" ELSE after

AfterStop(wref, tks) ==
    IF wref = 0 THEN "returned"
    ELSE IF tks[wref].status = "cancelled" THEN "returned"
    ELSE IF tks[wref].status = "failed" THEN "raised"
    ELSE "await_worker"

(* SessionRuntime.force_stop up to the await of the worker, issued by     *)
(* call record cr on worker reference wref and tasks tks                  *)
ForceStop(cr, reason, wref, tks) ==
    LET after == AfterStop(wref, tks)
    IN  /\ last_stop_reason' = reason
        /\ Publish(<< StoppedEvent(reason, tks) >>)
        /\ tasks' = IF after = "await_worker"
                    THEN [tks EXCEPT ![wref] = [@ EXCEPT !.cancel_req = TRUE]]
                    ELSE tks
        /\ worker_ref' = IF after = "returned" THEN 0 ELSE wref
        /\ calls' = Append(calls,
                       [cr EXCEPT !.pc = Resume(cr.kind, after),
                                  !.awaiting = IF after = "await_worker" THEN wref ELSE 0])

(* enqueue_message from its start to its first await after the stop and   *)
(* interrupt checks: repository.get, _ensure_runtime, the two checks      *)
EnqueueMessage(text) ==
    /\ Len(calls) < MaxCalls
    /\ CallCount("enqueue") < MaxEnqueues
    /\ CanStart
    /\ IF streaming /\ IsStopCmd(text)
       THEN /\ ForceStop(NewCall("enqueue", "", text, TRUE, {}), "user_explicit_stop",
                         StartedRef, StartedTasks)
            /\ UNCHANGED interrupt_flag
       ELSE /\ interrupt_flag' = (interrupt_flag \/ streaming)
            /\ worker_ref' = StartedRef
            /\ tasks' = StartedTasks
            /\ calls' = Append(calls,
                   NewCall("enqueue", "add", text, FALSE,
                           IF streaming THEN InFlight(tasks) ELSE {}))
            /\ UNCHANGED << subs, emitted, last_stop_reason >>
    /\ UNCHANGED << apart, adapter, participants, store, request_queue, streaming, turn_order,
                    next_id >>

(* the awaited worker is done: SessionRuntime.stop sets _worker = None    *)
AwaitWorkerDone(c) ==
    /\ calls[c].pc = "await_worker"
    /\ TaskDone(tasks[calls[c].awaiting])
    /\ IF tasks[calls[c].awaiting].status = "cancelled"
       THEN /\ worker_ref' = 0
            /\ calls' = [calls EXCEPT ![c] = [@ EXCEPT !.pc = Resume(calls[c].kind, "returned")]]
       ELSE /\ worker_ref' = worker_ref
            /\ calls' = [calls EXCEPT ![c] = [@ EXCEPT !.pc = Resume(calls[c].kind, "raised")]]
    /\ UNCHANGED << apart, adapter, participants, store, request_queue, subs, tasks, streaming,
                    last_stop_reason, interrupt_flag, emitted, turn_order, next_id >>

(* repository.add_message(session_id, sender, content) of enqueue_message *)
EnqueueAdd(c) ==
    /\ calls[c].pc = "add"
    /\ store' = Append(store, [sender |-> "user", content |-> calls[c].content, call |-> c])
    /\ calls' = [calls EXCEPT ![c] = [@ EXCEPT !.pc = "list"]]
    /\ UNCHANGED << apart, adapter, participants, request_queue, subs, worker_ref, tasks, streaming,
                    last_stop_reason, interrupt_flag, emitted, turn_order, next_id >>

HistoryPayload(st) ==
    LET recent == LastN(st, HistoryLimit)
    IN  [i \in 1..Len(recent) |-> [sender |-> recent[i].sender, content |-> recent[i].content]]

(* repository.list_messages returns; the enriched message is put on the   *)
(* request queue                                                          *)
EnqueuePut(c) ==
    /\ calls[c].pc = "list"
    /\ request_queue' = Append(request_queue,
           [call |-> c, sender |-> "user", content |-> calls[c].content,
            history |-> HistoryPayload(store),
            target_personas |-> [i \in 1..Len(participants) |-> Handle(participants[i])]])
    /\ calls' = [calls EXCEPT ![c] = [@ EXCEPT !.pc = "queued"]]
    /\ UNCHANGED << apart, adapter, participants, store, subs, worker_ref, tasks, streaming,
                    last_stop_reason, interrupt_flag, emitted, turn_order, next_id >>

(* SessionService.stop_session: the runtime exists, force_stop(None) *)
StopSession ==
    /\ Len(calls) < MaxCalls
    /\ CallCount("stop") < MaxStops
    /\ ForceStop(NewCall("stop", "", << >>, FALSE, {}), "", worker_ref, tasks)
    /\ UNCHANGED << apart, adapter, participants, store, request_queue, streaming,
                    interrupt_flag, turn_order, next_id >>

----------------------------------------------------------------------------
(* Subscribers: SessionService.stream_responses and SessionRuntime.subscribe *)

NoSub == [state |-> "new", queue |-> << >>, received |-> << >>, since |-> 0]

(* Subscribe with a queue that starts with the events published so far *)
SubscribeWithReplay(s) ==
    /\ subs[s].state = "new"
    /\ \A v \in 1..(s - 1) : subs[v].state # "new"
    /\ CanStart
    /\ worker_ref' = StartedRef
    /\ tasks' = StartedTasks
    /\ subs' = [subs EXCEPT ![s] = [state |-> "open", queue |-> emitted,
                                    received |-> << >>, since |-> Len(emitted)]]
    /\ UNCHANGED << apart, adapter, participants, store, request_queue, streaming,
                    last_stop_reason, interrupt_flag, calls, emitted, turn_order, next_id >>

(* stream_responses: _ensure_runtime, then a fresh registered queue *)
Subscribe(s) ==
    /\ subs[s].state = "new"
    /\ \A v \in 1..(s - 1) : subs[v].state # "new"
    /\ CanStart
    /\ worker_ref' = StartedRef
    /\ tasks' = StartedTasks
    /\ subs' = [subs EXCEPT ![s] = [NoSub EXCEPT !.state = "open", !.since = Len(emitted)]]
    /\ UNCHANGED << apart, adapter, participants, store, request_queue, streaming,
                    last_stop_reason, interrupt_flag, calls, emitted, turn_order, next_id >>

(* the subscriber's generator yields await queue.get() *)
SubscriberGet(s) ==
    /\ subs[s].state = "open"
    /\ subs[s].queue # << >>
    /\ subs' = [subs EXCEPT ![s] = [@ EXCEPT !.queue = Tail(@),
                                             !.received = Append(@, Head(subs[s].queue))]]
    /\ UNCHANGED << apart, adapter, participants, store, request_queue, worker_ref, tasks,
                    streaming, last_stop_reason, interrupt_flag, calls, emitted,
                    turn_order, next_id >>

(* the generator is closed: finally discards the queue, and the consumer *)
(* is gone with what it had received                                     *)
Unsubscribe(s) ==
    /\ subs[s].state = "open"
    /\ subs' = [subs EXCEPT ![s] = [NoSub EXCEPT !.state = "closed"]]
    /\ UNCHANGED << apart, adapter, participants, store, request_queue, worker_ref, tasks,
                    streaming, last_stop_reason, interrupt_flag, calls, emitted,
                    turn_order, next_id >>

----------------------------------------------------------------------------
(* A TurnScheduler on its own: any sequence of next_turn calls *)

(* the context_tags, last_speaker arguments a caller may pass *)
TagChoices == { << >>, << "Ada" >>, << "Ben" >>, << "Ada", "Ben" >>, << "Ben", "Ada" >> }

SpeakerChoices == { "", "user" } \cup PersonaNames

(* the scheduler with the arguments and the result of its latest call;    *)
(* before, context_tags, is_user_message, fallback are history, and so    *)
(* are ranked and threshold: the candidates of the call, sorted, and the  *)
(* threshold of its selection loop                                        *)
SchedulerObject(sched) ==
    [sched |-> sched, before |-> sched, called |-> FALSE, context_tags |-> << >>,
     is_user_message |-> FALSE, fallback |-> FALSE, speakers |-> << >>,
     ranked |-> << >>, threshold |-> 0]

NoScheduler == SchedulerObject(BuildScheduler(<< >>, 0))

(* whether next_turn returns the top candidate because nobody was chosen *)
TookFallback(sched, ps, context_tags, last_speaker, is_user_message, noise) ==
    LET cands == Candidates(sched, ps, context_tags, last_speaker, is_user_message, noise)
        sorted == SortByScore(cands, << >>)
        threshold == IF sched.silence_count >= SilenceThreshold THEN 30 ELSE 50
    IN  /\ \A i \in 1..Len(cands) : cands[i].score < 10000
        /\ Choose(sorted, << >>, threshold, sched.max_agents) = << >>
        /\ is_user_message
        /\ sorted # << >>

(* one call of TurnScheduler.next_turn *)
SchedulerNextTurn(context_tags, last_speaker, is_user_message, noise) ==
    /\ scheduler.sched.turn < MaxSchedulerCalls
    /\ LET r == NextTurn(scheduler.sched, Personas, context_tags, last_speaker,
                         is_user_message, noise)
       IN  scheduler' =
               [sched |-> r.sched, before |-> scheduler.sched, called |-> TRUE,
                context_tags |-> context_tags, is_user_message |-> is_user_message,
                fallback |-> TookFallback(scheduler.sched, Personas, context_tags,
                                          last_speaker, is_user_message, noise),
                speakers |-> r.speakers,
                ranked |-> SortByScore(Candidates(scheduler.sched, Personas, context_tags,
                                                  last_speaker, is_user_message, noise),
                                       << >>),
                threshold |-> IF scheduler.sched.silence_count >= SilenceThreshold
                              THEN 30 ELSE 50]
    /\ UNCHANGED << engine, settings, rag, user_runtime, reply_stream, service, lifecycle, user_cache >>

----------------------------------------------------------------------------
(* The RagQuery tool and the retrieval context (rag_query_tool.py,        *)
(* rag_context.py).  A username that is None is "None", a persona id      *)
(* that is None is -1.                                                    *)

NoUser == "None"

NoPersonaId == -1

(* Python truthiness of an Optional[str] and of an Optional[int] *)
TruthyUser(u) == u # NoUser /\ u # ""

TruthyId(n) == n # NoPersonaId /\ n # 0

(* RagQueryToolConfig: the defaults, and a configured fallback *)
RagConfigs ==
    { [username |-> NoUser, persona_id |-> NoPersonaId],
      [username |-> "carol", persona_id |-> 3] }

(* what set_rag_context is called with *)
ContextUsers == { "alice", "bob" }

ContextIds == { NoPersonaId, 1, 2 }

(* the arguments the LLM supplies to the tool: the two fields of the      *)
(* schema, and a username and a persona_id of its own making (NoUser,     *)
(* NoPersonaId when it supplies none)                                     *)
ToolArgs ==
    [query : { "q" }, top_k : { 4, 11 },
     username : { NoUser, "bob" }, persona_id : { NoPersonaId, 2 }]

(* RagQueryInput: top_k within 1..10, fields outside the schema dropped *)
ValidRagInput(args) == args.top_k >= 1 /\ args.top_k <= 10

RagQueryInput(args) == [query |-> args.query, top_k |-> args.top_k]

(* the tool, its context variables and its calls so far (history) *)
RagObject(config) ==
    [user_context |-> NoUser, persona_context |-> NoPersonaId, config |-> config,
     log |-> << >>]

NoRag == RagObject([username |-> NoUser, persona_id |-> NoPersonaId])

(* rag_context.set_rag_context *)
SetRagContext(username, persona_id) ==
    /\ rag' = [rag EXCEPT !.user_context = username, !.persona_context = persona_id]
    /\ UNCHANGED << engine, settings, scheduler, user_runtime, reply_stream, service, lifecycle, user_cache >>

(* rag_context.clear_rag_context *)
ClearRagContext ==
    /\ rag' = [rag EXCEPT !.user_context = NoUser, !.persona_context = NoPersonaId]
    /\ UNCHANGED << engine, settings, scheduler, user_runtime, reply_stream, service, lifecycle, user_cache >>

(* the retrieval of _single that reads the pair from the LLM's arguments *)
RagTargetFromArgs(args, ctx_user, ctx_persona, config) ==
    LET username == IF TruthyUser(args.username) THEN args.username
                    ELSE IF TruthyUser(ctx_user) THEN ctx_user ELSE config.username
        persona_id == IF TruthyId(args.persona_id) THEN args.persona_id
                      ELSE IF TruthyId(ctx_persona) THEN ctx_persona ELSE config.persona_id
    IN  [retrieved |-> persona_id # NoPersonaId, username |-> username,
         persona_id |-> persona_id, query |-> args.query, top_k |-> args.top_k]

(* what _single hands to retrieve_documents, if it retrieves at all *)
RagTarget(args, ctx_user, ctx_persona, config) ==
    LET input_data == RagQueryInput(args)
        username == IF TruthyUser(ctx_user) THEN ctx_user ELSE config.username
        persona_id == IF TruthyId(ctx_persona) THEN ctx_persona ELSE config.persona_id
    IN  [retrieved |-> persona_id # NoPersonaId, username |-> username,
         persona_id |-> persona_id, query |-> input_data.query,
         top_k |-> input_data.top_k]

(* one call of the tool by the LLM: _single *)
RagSingle(args) ==
    /\ Len(rag.log) < MaxRagCalls
    /\ ValidRagInput(args)
    /\ rag' = [rag EXCEPT !.log = Append(@,
                   [args |-> args, user_context |-> rag.user_context,
                    persona_context |-> rag.persona_context,
                    target |-> RagTarget(args, rag.user_context, rag.persona_context,
                                         rag.config)])]
    /\ UNCHANGED << engine, settings, scheduler, user_runtime, reply_stream, service, lifecycle, user_cache >>

----------------------------------------------------------------------------
(* The runtime of one user: the persona settings loaded from the persona   *)
(* rows, the settings resolved from them, the memory of a turn and the     *)
(* history a persona invocation is given (repositories.py,                 *)
(* runtime_adapter.py, memory.py, persona_function.py)                     *)

(* the columns memory_window and max_agents_per_turn of the persona rows *)
MemoryWindowChoices == { -1, 0, 2 }

MaxAgentsChoices == { -1, 0, 1 }

PersonaRows ==
    [PersonaNames -> [memory_window : MemoryWindowChoices,
                      max_agents_per_turn : MaxAgentsChoices]]

(* Settings.memory_window and Settings.max_agents_per_turn read from the  *)
(* environment                                                             *)
EnvSettings ==
    [memory_window : { 0, DefaultMemoryWindow },
     max_agents_per_turn : { 1, DefaultMaxAgents }]

SetMax(S) == CHOOSE x \in S : \A y \in S : y <= x

(* `a or b` on two integers *)
OrElse(a, b) == IF a # 0 THEN a ELSE b

(* SQLAlchemyPersonaRepository.load_persona_settings: the largest truthy  *)
(* value of each column, the repository's default when there is none      *)
LoadPersonaSettings(rows, defaults) ==
    LET memory_candidates == { rows[p].memory_window : p \in DOMAIN rows } \ { 0 }
        agent_candidates == { rows[p].max_agents_per_turn : p \in DOMAIN rows } \ { 0 }
    IN  [memory_window |-> IF memory_candidates # {} THEN SetMax(memory_candidates)
                           ELSE defaults.memory_window,
         max_agents_per_turn |-> IF agent_candidates # {} THEN SetMax(agent_candidates)
                                 ELSE defaults.max_agents_per_turn]

(* the settings _ensure_runtime builds the MultiAgentRuntime with *)
ResolvedSettings(persona_settings, env) ==
    [memory_window |-> OrElse(persona_settings.memory_window, env.memory_window),
     max_agents_per_turn |-> OrElse(persona_settings.max_agents_per_turn,
                                    env.max_agents_per_turn)]

(* messages[-limit:] *)
Recent(messages, limit) ==
    IF limit = 0 THEN messages
    ELSE IF limit > 0
         THEN SubSeq(messages, Max(1, Len(messages) - limit + 1), Len(messages))
         ELSE SubSeq(messages, Min(Len(messages), -limit) + 1, Len(messages))

(* as_payload called without last_n *)
NoLastN == -1

(* ConversationMemory.as_payload *)
AsPayload(messages, limit, last_n) ==
    LET effective_limit == IF last_n # NoLastN THEN last_n
                           ELSE IF limit <= 0 THEN Len(messages) ELSE limit
    IN  Recent(messages, effective_limit)

(* the history _build_messages appends to the prompt *)
BuildMessagesHistory(history, memory_window) == Recent(history, memory_window)

(* the history of the payload the loop builds for a speaker, as the        *)
(* persona function uses it                                                *)
DeliveredHistory(messages, memory_window) ==
    BuildMessagesHistory(AsPayload(messages, memory_window, 1), memory_window)

MemorySpeakers == { "user", "Ada" }

(* the runtime of a user before _ensure_runtime; memory_then is history:  *)
(* the memory at the latest invocation; recalled, limit, recent and       *)
(* memory_recalled are history too: the latest call of recent, its        *)
(* argument, its result and the memory it was made on                     *)
UserRuntimeObject(rows, env) ==
    [rows |-> rows, env |-> env, ensured |-> FALSE,
     persona_settings |-> env, settings |-> env,
     memory |-> << >>, built |-> FALSE, max_agents |-> 0,
     invoked |-> FALSE, history |-> << >>, memory_then |-> << >>,
     recalled |-> FALSE, limit |-> 0, recent |-> << >>, memory_recalled |-> << >>]

NoUserRuntime ==
    UserRuntimeObject([p \in PersonaNames |->
                          [memory_window |-> DefaultMemoryWindow,
                           max_agents_per_turn |-> DefaultMaxAgents]],
                      [memory_window |-> DefaultMemoryWindow,
                       max_agents_per_turn |-> DefaultMaxAgents])

(* NemoRuntimeAdapter._ensure_runtime, the first time *)
EnsureRuntime ==
    /\ ~user_runtime.ensured
    /\ LET persona_settings == LoadPersonaSettings(user_runtime.rows, user_runtime.env)
       IN  user_runtime' =
               [user_runtime EXCEPT
                   !.ensured = TRUE,
                   !.persona_settings = persona_settings,
                   !.settings = ResolvedSettings(persona_settings, user_runtime.env)]
    /\ UNCHANGED << engine, settings, scheduler, rag, reply_stream, service, lifecycle, user_cache >>

(* ConversationMemory.add *)
MemoryAdd(speaker) ==
    /\ user_runtime.ensured
    /\ Len(user_runtime.memory) < MaxMemory
    /\ user_runtime' =
           [user_runtime EXCEPT
               !.memory = Append(@, [speaker |-> speaker, content |-> << "hi" >>])]
    /\ UNCHANGED << engine, settings, scheduler, rag, reply_stream, service, lifecycle, user_cache >>

(* the values of n that recent is called with *)
RecentLimits == (0 - 2)..(MaxMemory + 1)

(* ConversationMemory.recent(limit), called on the memory as it is *)
MemoryRecent(limit) ==
    /\ user_runtime.ensured
    /\ ~user_runtime.recalled
    /\ user_runtime' =
           [user_runtime EXCEPT
               !.recalled = TRUE,
               !.limit = limit,
               !.recent = Recent(user_runtime.memory, limit),
               !.memory_recalled = user_runtime.memory]
    /\ UNCHANGED << engine, settings, scheduler, rag, reply_stream, service, lifecycle, user_cache >>

(* invoke_stream builds the scheduler of the turn *)
BuildTurnScheduler ==
    /\ user_runtime.ensured
    /\ ~user_runtime.built
    /\ user_runtime' =
           [user_runtime EXCEPT
               !.built = TRUE,
               !.max_agents =
                   BuildScheduler(Personas,
                       OrElse(user_runtime.persona_settings.max_agents_per_turn,
                              user_runtime.env.max_agents_per_turn)).max_agents]
    /\ UNCHANGED << engine, settings, scheduler, rag, reply_stream, service, lifecycle, user_cache >>

(* the loop builds the payload of a speaker and the persona function      *)
(* builds its messages from it                                            *)
InvokePersona ==
    /\ user_runtime.ensured
    /\ user_runtime.memory # << >>
    /\ user_runtime' =
           [user_runtime EXCEPT
               !.invoked = TRUE,
               !.history = DeliveredHistory(user_runtime.memory,
                                            user_runtime.settings.memory_window),
               !.memory_then = user_runtime.memory]
    /\ UNCHANGED << engine, settings, scheduler, rag, reply_stream, service, lifecycle, user_cache >>

----------------------------------------------------------------------------
(* One reply streamed through the special-token filter, character by      *)
(* character: a text is a sequence of characters here                     *)

(* the characters [|｜] of the pattern; the second is the full-width bar *)
Bars == { "|", "U+FF5C" }

(* the characters the streamed chunks are made of *)
Chars == { "<", "|", ">" }

(* the texts of 1..n characters *)
TextsUpTo(n) == UNION { [1..k -> Chars] : k \in 1..n }

(* the first bar of text at or after position j, 0 if there is none *)
RECURSIVE NextBar(_, _)
NextBar(text, j) ==
    IF j > Len(text) THEN 0
    ELSE IF text[j] \in Bars THEN j ELSE NextBar(text, j + 1)

(* where a match of <[|｜][^|｜]*[|｜]> that starts at i ends, 0 if none *)
MatchEnd(text, i) ==
    IF i + 1 <= Len(text) /\ text[i] = "<" /\ text[i + 1] \in Bars
    THEN LET j == NextBar(text, i + 2)
         IN  IF j > 0 /\ j + 1 <= Len(text) /\ text[j + 1] = ">" THEN j + 1 ELSE 0
    ELSE 0

(* _SPECIAL_TOKEN_PATTERN.sub('', text) from position i on: the leftmost   *)
(* matches, not overlapping, are removed in one pass                       *)
RECURSIVE PatternSub(_, _)
PatternSub(text, i) ==
    IF i > Len(text) THEN << >>
    ELSE LET e == MatchEnd(text, i)
         IN  IF e > 0 THEN PatternSub(text, e + 1)
             ELSE << text[i] >> \o PatternSub(text, i + 1)

(* NemoRuntimeAdapter._filter_special_tokens on a text of characters *)
FilterSpecialChars(text) == PatternSub(text, 1)

(* _SPECIAL_TOKEN_PATTERN.search(text) finds a match *)
HasSpecialToken(text) == \E i \in 1..Len(text) : MatchEnd(text, i) > 0

(* the reply of one speaker before its first chunk; raw_len is history *)
NoReplyStream ==
    [chunk_count |-> 0, raw_len |-> 0, chunks |-> << >>, full_reply |-> << >>,
     ended |-> FALSE, end_content |-> << >>]

(* one chunk of runtime.invoke_stream: filtered, yielded as agent.chunk   *)
(* and added to full_reply unless nothing is left of it                   *)
StreamChunk(text_chunk) ==
    /\ ~reply_stream.ended
    /\ reply_stream.chunk_count < MaxStreamChunks
    /\ LET filtered == FilterSpecialChars(text_chunk)
       IN  reply_stream' =
               [reply_stream EXCEPT
                   !.chunk_count = @ + 1,
                   !.raw_len = @ + Len(text_chunk),
                   !.chunks = IF filtered # << >> THEN Append(@, filtered) ELSE @,
                   !.full_reply = @ \o filtered]
    /\ UNCHANGED << engine, settings, scheduler, rag, user_runtime, service, lifecycle, user_cache >>

(* the stream is exhausted: agent.end carries full_reply *)
StreamEnd ==
    /\ ~reply_stream.ended
    /\ reply_stream' = [reply_stream EXCEPT !.ended = TRUE,
                                            !.end_content = reply_stream.full_reply]
    /\ UNCHANGED << engine, settings, scheduler, rag, user_runtime, service, lifecycle, user_cache >>

----------------------------------------------------------------------------
(* A SessionService with an in-memory repository, called for session ids  *)
(* that exist and that do not (session_service.py, repositories.py,       *)
(* routers/sessions.py).  Every call runs to its end before the next.     *)

SessionIds == { "s1", "s2" }

(* repository.get returns None *)
NoRecord == [exists |-> FALSE, participants |-> << >>, title |-> ""]

(* no SessionRuntime under the session id *)
NoRuntime == [exists |-> FALSE, worker |-> FALSE, queue |-> << >>, subscribers |-> 0,
              last_stop_reason |-> "none"]

(* a target_personas that is None or empty *)
NoTargets == << >>

(* what a client may send as target_personas *)
ClientTargets == { NoTargets, << "ben" >> }

(* the participants a session may be given *)
ServiceParticipants == { << >>, << "Ada" >> }

(* the repository and the runtimes of the service *)
ServiceState(sv) == [records |-> sv.records, messages |-> sv.messages,
                     runtimes |-> sv.runtimes]

(* the outcome of a call; before is history: the state the call found *)
CallOutcome(op, session_id, result, sv) ==
    [op |-> op, session_id |-> session_id, result |-> result,
     existed |-> sv.records[session_id].exists, before |-> ServiceState(sv)]

NoService ==
    [records |-> [i \in SessionIds |-> NoRecord],
     messages |-> [i \in SessionIds |-> << >>],
     runtimes |-> [i \in SessionIds |-> NoRuntime],
     count |-> 0,
     last |-> [op |-> "", session_id |-> "", result |-> "", existed |-> FALSE,
               before |-> [records |-> [i \in SessionIds |-> NoRecord],
                           messages |-> [i \in SessionIds |-> << >>],
                           runtimes |-> [i \in SessionIds |-> NoRuntime]]]]

(* SessionService._ensure_runtime: the runtime is created if there is     *)
(* none, and started                                                      *)
EnsuredRuntimes(runtimes, session_id) ==
    [runtimes EXCEPT ![session_id] = [@ EXCEPT !.exists = TRUE, !.worker = TRUE]]

(* the rest of every call of the service *)
ServiceCall(sv) ==
    /\ service.count < MaxServiceCalls
    /\ service' = [sv EXCEPT !.count = service.count + 1]
    /\ UNCHANGED << engine, settings, scheduler, rag, user_runtime, reply_stream, lifecycle, user_cache >>

(* SessionService.create_session *)
ServiceCreate(session_id, ps) ==
    /\ ~service.records[session_id].exists
    /\ ServiceCall([service EXCEPT
           !.records[session_id] = [exists |-> TRUE, participants |-> ps, title |-> ""],
           !.runtimes = EnsuredRuntimes(@, session_id),
           !.last = CallOutcome("create", session_id, "ok", service)])

(* POST /sessions/{id}/messages and SessionService.enqueue_message, the   *)
(* runtime not streaming; client_targets and participants of the queued   *)
(* message are history                                                    *)
ServiceEnqueue(session_id, content, target_personas) ==
    LET record == service.records[session_id]
        enriched == [content |-> content,
                     target_personas |-> [i \in 1..Len(record.participants) |->
                                             Handle(record.participants[i])],
                     client_targets |-> target_personas,
                     participants |-> record.participants]
    IN  IF ~record.exists
        THEN ServiceCall([service EXCEPT
                 !.last = CallOutcome("enqueue", session_id, "SessionNotFound", service)])
        ELSE ServiceCall([service EXCEPT
                 !.runtimes = [EnsuredRuntimes(@, session_id) EXCEPT
                                  ![session_id].queue = Append(@, enriched)],
                 !.messages[session_id] = Append(@, content),
                 !.last = CallOutcome("enqueue", session_id, "ok", service)])

(* SessionService.stream_responses *)
ServiceSubscribe(session_id) ==
    IF ~service.records[session_id].exists
    THEN ServiceCall([service EXCEPT
             !.last = CallOutcome("subscribe", session_id, "SessionNotFound", service)])
    ELSE ServiceCall([service EXCEPT
             !.runtimes = [EnsuredRuntimes(@, session_id) EXCEPT
                              ![session_id].subscribers = @ + 1],
             !.last = CallOutcome("subscribe", session_id, "ok", service)])

(* SessionService.update_session_metadata *)
ServiceUpdateMetadata(session_id, title) ==
    IF ~service.records[session_id].exists
    THEN ServiceCall([service EXCEPT
             !.last = CallOutcome("update_metadata", session_id, "SessionNotFound",
                                  service)])
    ELSE ServiceCall([service EXCEPT
             !.records[session_id].title = title,
             !.runtimes = EnsuredRuntimes(@, session_id),
             !.last = CallOutcome("update_metadata", session_id, "ok", service)])

(* SessionService.update_session_participants *)
ServiceUpdateParticipants(session_id, ps) ==
    IF ~service.records[session_id].exists
    THEN ServiceCall([service EXCEPT
             !.last = CallOutcome("update_participants", session_id, "SessionNotFound",
                                  service)])
    ELSE ServiceCall([service EXCEPT
             !.records[session_id].participants = ps,
             !.runtimes = EnsuredRuntimes(@, session_id),
             !.last = CallOutcome("update_participants", session_id, "ok", service)])

(* SessionService.stop_session with no reason: force_stop stops the       *)
(* worker                                                                 *)
ServiceStop(session_id) ==
    IF ~service.records[session_id].exists
    THEN ServiceCall([service EXCEPT
             !.last = CallOutcome("stop", session_id, "SessionNotFound", service)])
    ELSE IF ~service.runtimes[session_id].exists
         THEN ServiceCall([service EXCEPT
                  !.last = CallOutcome("stop", session_id, "ok", service)])
         ELSE ServiceCall([service EXCEPT
                  !.runtimes[session_id] = [@ EXCEPT !.worker = FALSE,
                                                     !.last_stop_reason = "force_stop"],
                  !.last = CallOutcome("stop", session_id, "ok", service)])

(* SessionService.delete_session: the runtime is popped and stopped, the  *)
(* repository deletes what it finds under the id and raises nothing       *)
ServiceDelete(session_id) ==
    ServiceCall([service EXCEPT
        !.runtimes[session_id] = NoRuntime,
        !.records[session_id] = NoRecord,
        !.messages[session_id] = << >>,
        !.last = CallOutcome("delete", session_id, "ok", service)])

----------------------------------------------------------------------------
(* One session of a SessionService whose calls interleave at their awaits *)
(* (session_service.py): the record of the repository, the entry of       *)
(* self._runtimes, the SessionRuntime objects ever created for the id and *)
(* their worker tasks.  A call is a record with its position.             *)

LifeRuntimeIds == 1..MaxLifeRuntimes

LifeWorkerIds == 1..MaxLifeWorkers

(* a SessionRuntime: whether it was created, its _worker (0 is None) and  *)
(* the length of its _request_queue                                       *)
NoLifeRuntime == [made |-> FALSE, worker |-> 0, queue |-> 0]

(* a worker task: the runtime whose _worker_loop it runs, and where it is *)
NoLifeWorker == [status |-> "none", cancel_req |-> FALSE, runtime |-> 0, pc |-> "none"]

(* the session right after create_session *)
CreatedSession ==
    [record |-> TRUE,
     entry |-> 1,
     runtimes |-> [r \in LifeRuntimeIds |->
                      IF r = 1 THEN [made |-> TRUE, worker |-> 1, queue |-> 0]
                      ELSE NoLifeRuntime],
     workers |-> [w \in LifeWorkerIds |->
                     IF w = 1 THEN [status |-> "alive", cancel_req |-> FALSE,
                                    runtime |-> 1, pc |-> "get"]
                     ELSE NoLifeWorker],
     calls |-> << >>]

(* the harness when no specification drives it *)
NoLifecycle == CreatedSession

(* asyncio.Task.done() of a worker of the session *)
LifeWorkerDone(lc, w) == lc.workers[w].status = "cancelled"

(* the first task, the first runtime not used yet (0: none left) *)
FreeLifeWorker(lc) ==
    IF \E w \in LifeWorkerIds : lc.workers[w].status = "none"
    THEN CHOOSE w \in LifeWorkerIds :
             /\ lc.workers[w].status = "none"
             /\ \A v \in 1..(w - 1) : lc.workers[v].status # "none"
    ELSE 0

FreeLifeRuntime(lc) ==
    IF \E r \in LifeRuntimeIds : ~lc.runtimes[r].made
    THEN CHOOSE r \in LifeRuntimeIds :
             ~lc.runtimes[r].made /\ \A q \in 1..(r - 1) : lc.runtimes[q].made
    ELSE 0

(* SessionRuntime.start on runtime r *)
LifeStart(lc, r) ==
    IF lc.runtimes[r].worker = 0 \/ LifeWorkerDone(lc, lc.runtimes[r].worker)
    THEN LET w == FreeLifeWorker(lc)
         IN  [lc EXCEPT !.runtimes[r].worker = w,
                        !.workers[w] = [status |-> "alive", cancel_req |-> FALSE,
                                        runtime |-> r, pc |-> "get"]]
    ELSE lc

(* SessionService._ensure_runtime *)
LifeEnsured(lc) ==
    IF lc.entry = 0
    THEN LET r == FreeLifeRuntime(lc)
         IN  LifeStart([lc EXCEPT !.entry = r,
                                  !.runtimes[r] = [NoLifeRuntime EXCEPT !.made = TRUE]], r)
    ELSE LifeStart(lc, lc.entry)

(* the model has a runtime and a task left for _ensure_runtime *)
CanEnsure(lc) ==
    /\ lc.entry = 0 => FreeLifeRuntime(lc) # 0
    /\ FreeLifeWorker(lc) # 0

LifeCall(op, pc, r, w) == [op |-> op, pc |-> pc, runtime |-> r, awaiting |-> w]

(* SessionRuntime.stop on runtime r up to its await, for a call of kind   *)
(* op that goes on at pc after: the task is cancelled and awaited; a task *)
(* that is done answers the await at once                                 *)
LifeStopped(lc, r, op, after) ==
    LET w == lc.runtimes[r].worker
    IN  IF w = 0
        THEN [lc EXCEPT !.calls = Append(@, LifeCall(op, after, r, 0))]
        ELSE IF LifeWorkerDone(lc, w)
             THEN [lc EXCEPT !.runtimes[r].worker = 0,
                             !.calls = Append(@, LifeCall(op, after, r, 0))]
             ELSE [lc EXCEPT !.workers[w].cancel_req = TRUE,
                             !.calls = Append(@, LifeCall(op, "await_worker", r, w))]

LifeStep(lc) ==
    /\ lifecycle' = lc
    /\ UNCHANGED << engine, settings, scheduler, rag, user_runtime, reply_stream, service, user_cache >>

(* the repository call that opens enqueue_message, stream_responses and   *)
(* the update_* calls answers: the record, or none                        *)
LifeGet(op) ==
    /\ Len(lifecycle.calls) < MaxLifeCalls
    /\ LifeStep([lifecycle EXCEPT
           !.calls = Append(@, LifeCall(op, IF lifecycle.record THEN "got" ELSE "not_found",
                                        0, 0))])

(* the call goes on after the repository: _ensure_runtime, and then       *)
(* subscribe or return, or on to the store and the queue for a message    *)
LifeEnsure(c) ==
    /\ lifecycle.calls[c].pc = "got"
    /\ CanEnsure(lifecycle)
    /\ LET lc == LifeEnsured(lifecycle)
       IN  LifeStep([lc EXCEPT
               !.calls[c] = [@ EXCEPT !.runtime = lc.entry,
                                      !.pc = IF lifecycle.calls[c].op = "enqueue"
                                             THEN "put" ELSE "done"]])

(* await runtime.enqueue(enriched_message), on the runtime the call holds *)
LifePut(c) ==
    /\ lifecycle.calls[c].pc = "put"
    /\ lifecycle.runtimes[lifecycle.calls[c].runtime].queue < MaxLifeQueue
    /\ LifeStep([lifecycle EXCEPT
           !.runtimes[lifecycle.calls[c].runtime].queue = @ + 1,
           !.calls[c].pc = "done"])

(* SessionService.stop_session after repository.get: force_stop of the    *)
(* runtime under the id, if there is one                                  *)
LifeStop ==
    /\ Len(lifecycle.calls) < MaxLifeCalls
    /\ lifecycle.record
    /\ IF lifecycle.entry = 0
       THEN LifeStep([lifecycle EXCEPT !.calls = Append(@, LifeCall("stop", "done", 0, 0))])
       ELSE LifeStep(LifeStopped(lifecycle, lifecycle.entry, "stop", "done"))

(* SessionService.delete_session up to its first await: the runtime is    *)
(* popped and stopped                                                     *)
LifeDelete ==
    /\ Len(lifecycle.calls) < MaxLifeCalls
    /\ \A c \in 1..Len(lifecycle.calls) : lifecycle.calls[c].op # "delete"
    /\ IF lifecycle.entry = 0
       THEN LifeStep([lifecycle EXCEPT
                !.calls = Append(@, LifeCall("delete", "repo_delete", 0, 0))])
       ELSE LifeStep(LifeStopped([lifecycle EXCEPT !.entry = 0], lifecycle.entry,
                                 "delete", "repo_delete"))

(* the awaited worker is done: SessionRuntime.stop sets _worker = None    *)
LifeAwaitWorker(c) ==
    /\ lifecycle.calls[c].pc = "await_worker"
    /\ LifeWorkerDone(lifecycle, lifecycle.calls[c].awaiting)
    /\ LifeStep([lifecycle EXCEPT
           !.runtimes[lifecycle.calls[c].runtime].worker = 0,
           !.calls[c].pc = IF lifecycle.calls[c].op = "delete" THEN "repo_delete"
                           ELSE "done"])

(* repository.delete_session of delete_session *)
LifeRepoDelete(c) ==
    /\ lifecycle.calls[c].pc = "repo_delete"
    /\ LifeStep([lifecycle EXCEPT !.record = FALSE, !.calls[c].pc = "done"])

(* CancelledError is thrown into a worker at its await *)
LifeWorkerCancelled(w) ==
    /\ lifecycle.workers[w].status = "alive"
    /\ lifecycle.workers[w].cancel_req
    /\ LifeStep([lifecycle EXCEPT !.workers[w].status = "cancelled"])

(* a worker takes a message from the queue of its runtime *)
LifeWorkerGet(w) ==
    /\ lifecycle.workers[w].status = "alive"
    /\ ~lifecycle.workers[w].cancel_req
    /\ lifecycle.workers[w].pc = "get"
    /\ lifecycle.runtimes[lifecycle.workers[w].runtime].queue > 0
    /\ LifeStep([lifecycle EXCEPT
           !.runtimes[lifecycle.workers[w].runtime].queue = @ - 1,
           !.workers[w].pc = "turn"])

(* the turn of a worker ends: back to the queue *)
LifeWorkerTurnEnd(w) ==
    /\ lifecycle.workers[w].status = "alive"
    /\ ~lifecycle.workers[w].cancel_req
    /\ lifecycle.workers[w].pc = "turn"
    /\ LifeStep([lifecycle EXCEPT !.workers[w].pc = "get"])

----------------------------------------------------------------------------
(* The per-user runtime cache of NemoRuntimeAdapter under concurrent      *)
(* invocations (runtime_adapter.py): _runtimes, _persona_cache and _locks *)
(* by username, the persona settings of the database as a version number, *)
(* every MultiAgentRuntime constructed, and the invocations. shutdown,    *)
(* which runs when the application exits, is not part of it.              *)

Usernames == { "alice", "bob" }

(* persona settings and runtimes are numbered from 1; 0 is None *)
NoUserCache ==
    [runtimes |-> [u \in Usernames |-> 0],
     persona_cache |-> [u \in Usernames |-> 0],
     locks |-> [u \in Usernames |-> 0],
     db |-> [u \in Usernames |-> 1],
     built |-> << >>,
     callers |-> << >>]

(* an invocation: its user, where it is, the runtime and the persona      *)
(* settings it has; waited is history: it found the runtime under the lock *)
Caller(username, pc, runtime, persona_settings) ==
    [username |-> username, pc |-> pc, runtime |-> runtime,
     persona_settings |-> persona_settings, waited |-> FALSE]

CacheStep(uc) ==
    /\ user_cache' = uc
    /\ UNCHANGED << engine, settings, scheduler, rag, user_runtime, reply_stream, service,
                    lifecycle >>

(* a second check that finds nothing *)
CachedUnderLockSkipped(uc, username) == 0

(* runtime = self._runtimes.get(username), the second time, under the lock *)
CachedUnderLock(uc, username) == uc.runtimes[username]

(* invoke_stream calls _ensure_runtime: with a runtime in the cache it    *)
(* goes on with it and with _persona_cache[username]; else it waits for   *)
(* the lock of the user                                                   *)
CacheInvoke(username) ==
    /\ Len(user_cache.callers) < MaxCallers
    /\ LET runtime == user_cache.runtimes[username]
       IN  CacheStep([user_cache EXCEPT
               !.callers = Append(@,
                   IF runtime # 0
                   THEN Caller(username, "turn", runtime, user_cache.persona_cache[username])
                   ELSE Caller(username, "lock", 0, 0))])

(* async with lock, and the second look at the cache *)
CacheAcquire(c) ==
    LET username == user_cache.callers[c].username
        runtime == CachedUnderLock(user_cache, username)
    IN  /\ user_cache.callers[c].pc = "lock"
        /\ user_cache.locks[username] = 0
        /\ IF runtime # 0
           THEN CacheStep([user_cache EXCEPT
                    !.callers[c] = [@ EXCEPT
                        !.pc = "turn", !.runtime = runtime, !.waited = TRUE,
                        !.persona_settings = user_cache.persona_cache[username]]])
           ELSE CacheStep([user_cache EXCEPT
                    !.locks[username] = c,
                    !.callers[c].pc = "load"])

(* _load_persona_settings answers, from the cache or from the database,   *)
(* and the MultiAgentRuntime is constructed from its answer               *)
CacheLoad(c) ==
    LET username == user_cache.callers[c].username
        cached == user_cache.persona_cache[username]
        loaded == IF cached # 0 THEN cached ELSE user_cache.db[username]
    IN  /\ user_cache.callers[c].pc = "load"
        /\ CacheStep([user_cache EXCEPT
               !.persona_cache[username] = loaded,
               !.built = Append(@, [username |-> username, settings |-> loaded,
                                    entered |-> FALSE]),
               !.callers[c] = [@ EXCEPT !.pc = "enter",
                                        !.runtime = Len(user_cache.built) + 1,
                                        !.persona_settings = loaded]])

(* runtime.__aenter__ returns: the runtime and the settings are cached,   *)
(* the lock is released, and invoke_stream goes on                        *)
CacheEnter(c) ==
    LET username == user_cache.callers[c].username
        runtime == user_cache.callers[c].runtime
    IN  /\ user_cache.callers[c].pc = "enter"
        /\ CacheStep([user_cache EXCEPT
               !.built[runtime].entered = TRUE,
               !.runtimes[username] = runtime,
               !.persona_cache[username] = user_cache.callers[c].persona_settings,
               !.locks[username] = 0,
               !.callers[c].pc = "turn"])

(* runtime.__aenter__ raises: the lock is released, nothing is cached,    *)
(* and the invocation fails                                               *)
CacheEnterFails(c) ==
    /\ user_cache.callers[c].pc = "enter"
    /\ Cardinality({ k \in 1..Len(user_cache.callers) :
                        user_cache.callers[k].pc = "failed" }) < MaxEnterFaults
    /\ CacheStep([user_cache EXCEPT
           !.locks[user_cache.callers[c].username] = 0,
           !.callers[c] = [@ EXCEPT !.pc = "failed", !.runtime = 0,
                                    !.persona_settings = 0]])

(* the user changes a persona through the API: the database holds new     *)
(* persona settings                                                       *)
PersonasUpdated(username) ==
    /\ user_cache.db[username] < MaxPersonaVersions
    /\ CacheStep([user_cache EXCEPT !.db[username] = @ + 1])

----------------------------------------------------------------------------
(* The session right after SessionService.create_session: the runtime     *)
(* exists and its first worker waits at the queue                         *)
Init ==
    /\ adapter \in { "stub", "nemo" }
    /\ participants \in ParticipantChoices
    /\ store = << >>
    /\ request_queue = << >>
    /\ subs = [s \in SubIds |-> NoSub]
    /\ worker_ref = 1
    /\ tasks = [w \in WorkerIds |-> IF w = 1 THEN NewTask ELSE NoTask]
    /\ streaming = FALSE
    /\ last_stop_reason = "none"
    /\ interrupt_flag = FALSE
    /\ calls = << >>
    /\ emitted = << >>
    /\ turn_order = << >>
    /\ next_id = 1
    /\ settings = DefaultSettings
    /\ scheduler = NoScheduler
    /\ rag = NoRag
    /\ user_runtime = NoUserRuntime
    /\ reply_stream = NoReplyStream
    /\ service = NoService
    /\ lifecycle = NoLifecycle
    /\ user_cache = NoUserCache

Next ==
    \/ \E text \in UserTexts : EnqueueMessage(text)
    \/ \E c \in 1..Len(calls) : AwaitWorkerDone(c)
    \/ \E c \in 1..Len(calls) : EnqueueAdd(c)
    \/ \E c \in 1..Len(calls) : EnqueuePut(c)
    \/ StopSession
    \/ \E s \in SubIds : Subscribe(s)
    \/ \E s \in SubIds : SubscriberGet(s)
    \/ \E s \in SubIds : Unsubscribe(s)
    \/ \E w \in WorkerIds : WorkerGet(w)
    \/ \E w \in WorkerIds : AdapterEnter(w)
    \/ \E w \in WorkerIds, chunk \in LLMChunks : LLMChunk(w, chunk)
    \/ \E w \in WorkerIds : LLMEnd(w)
    \/ \E w \in WorkerIds : LLMRaise(w)
    \/ \E w \in WorkerIds, error_msg \in ErrorMessages : LLMFails(w, error_msg)
    \/ \E w \in WorkerIds : PersistOk(w)
    \/ \E w \in WorkerIds : PersistFail(w)
    \/ \E w \in WorkerIds : StreamRaises(w)
    \/ \E w \in WorkerIds : WorkerCancelled(w)

Spec == Init /\ [][Next]_vars

(* The engine seen from its callers and its worker: nobody subscribes.    *)
(* LLM calls that fail do so outside the persona function.  Every        *)
(* behaviour of TurnSpec is a behaviour of Spec.                          *)
NextTurns ==
    \/ \E text \in UserTexts : EnqueueMessage(text)
    \/ \E c \in 1..Len(calls) : AwaitWorkerDone(c)
    \/ \E c \in 1..Len(calls) : EnqueueAdd(c)
    \/ \E c \in 1..Len(calls) : EnqueuePut(c)
    \/ StopSession
    \/ \E w \in WorkerIds : WorkerGet(w)
    \/ \E w \in WorkerIds : AdapterEnter(w)
    \/ \E w \in WorkerIds, chunk \in LLMChunks : LLMChunk(w, chunk)
    \/ \E w \in WorkerIds : LLMEnd(w)
    \/ \E w \in WorkerIds : LLMRaise(w)
    \/ \E w \in WorkerIds : PersistOk(w)
    \/ \E w \in WorkerIds : PersistFail(w)
    \/ \E w \in WorkerIds : WorkerCancelled(w)

TurnSpec == Init /\ [][NextTurns]_vars

(* The broadcaster with its subscribers, the turns being produced by      *)
(* StubRuntimeAdapter for a session without participants.  Every          *)
(* behaviour of StreamSpec is a behaviour of Spec.                        *)
InitStream == Init /\ adapter = "stub" /\ participants = << >>

NextStream ==
    \/ \E text \in UserTexts : EnqueueMessage(text)
    \/ \E c \in 1..Len(calls) : AwaitWorkerDone(c)
    \/ \E c \in 1..Len(calls) : EnqueueAdd(c)
    \/ \E c \in 1..Len(calls) : EnqueuePut(c)
    \/ StopSession
    \/ \E s \in SubIds : Subscribe(s)
    \/ \E s \in SubIds : SubscriberGet(s)
    \/ \E s \in SubIds : Unsubscribe(s)
    \/ \E w \in WorkerIds : WorkerGet(w)
    \/ \E w \in WorkerIds : AdapterEnter(w)
    \/ \E w \in WorkerIds : PersistOk(w)
    \/ \E w \in WorkerIds : PersistFail(w)
    \/ \E w \in WorkerIds : WorkerCancelled(w)

StreamSpec == InitStream /\ [][NextStream]_vars

(* One user message on a fresh session served by NemoRuntimeAdapter, for  *)
(* several sets of participants, settings, messages and replies.  But for *)
(* the wider choice of settings and participants, every behaviour of      *)
(* RoundsSpec is a behaviour of Spec.                                     *)
RoundsParticipants == { << >>, << "Ada" >>, << "Ben" >>, << "Ada", "Ben" >> }

RoundsSettings ==
    [max_agents_per_turn : { 1, DefaultMaxAgents },
     max_exchanges_per_turn : { 0, 1, MaxRounds },
     stop_patience : 1..MaxPatience]

RoundsTexts == { << "hi" >>, << "@ada", "hi" >>, << "@ada", "@ben" >>, << "goodnight" >> }

RoundsChunks == { << "hi" >>, << "<|pad|>" >>, << "goodnight" >> }

InitRounds ==
    /\ adapter = "nemo"
    /\ participants \in RoundsParticipants
    /\ store = << >>
    /\ request_queue = << >>
    /\ subs = [s \in SubIds |-> NoSub]
    /\ worker_ref = 1
    /\ tasks = [w \in WorkerIds |-> IF w = 1 THEN NewTask ELSE NoTask]
    /\ streaming = FALSE
    /\ last_stop_reason = "none"
    /\ interrupt_flag = FALSE
    /\ calls = << >>
    /\ emitted = << >>
    /\ turn_order = << >>
    /\ next_id = 1
    /\ settings \in RoundsSettings
    /\ scheduler = NoScheduler
    /\ rag = NoRag
    /\ user_runtime = NoUserRuntime
    /\ reply_stream = NoReplyStream
    /\ service = NoService
    /\ lifecycle = NoLifecycle
    /\ user_cache = NoUserCache

NextRounds ==
    \/ \E text \in RoundsTexts : Len(calls) = 0 /\ EnqueueMessage(text)
    \/ \E c \in 1..Len(calls) : EnqueueAdd(c)
    \/ \E c \in 1..Len(calls) : EnqueuePut(c)
    \/ \E w \in WorkerIds : WorkerGet(w)
    \/ \E w \in WorkerIds : AdapterEnter(w)
    \/ \E w \in WorkerIds, chunk \in RoundsChunks : LLMChunk(w, chunk)
    \/ \E w \in WorkerIds : LLMEnd(w)
    \/ \E w \in WorkerIds : LLMRaise(w)
    \/ \E w \in WorkerIds, error_msg \in ErrorMessages : LLMFails(w, error_msg)
    \/ \E w \in WorkerIds : PersistOk(w)
    \/ \E w \in WorkerIds : PersistFail(w)
    \/ \E w \in WorkerIds : StreamRaises(w)

RoundsSpec == InitRounds /\ [][NextRounds]_vars

(* the session left alone, idle *)
IdleSession ==
    /\ adapter = "stub"
    /\ participants = << >>
    /\ store = << >>
    /\ request_queue = << >>
    /\ subs = [s \in SubIds |-> NoSub]
    /\ worker_ref = 1
    /\ tasks = [w \in WorkerIds |-> IF w = 1 THEN NewTask ELSE NoTask]
    /\ streaming = FALSE
    /\ last_stop_reason = "none"
    /\ interrupt_flag = FALSE
    /\ calls = << >>
    /\ emitted = << >>
    /\ turn_order = << >>
    /\ next_id = 1
    /\ settings = DefaultSettings

(* the harnesses that a specification does not drive *)
NoHarness(except) ==
    /\ "scheduler" \in except \/ scheduler = NoScheduler
    /\ "rag" \in except \/ rag = NoRag
    /\ "user_runtime" \in except \/ user_runtime = NoUserRuntime
    /\ "reply_stream" \in except \/ reply_stream = NoReplyStream
    /\ "service" \in except \/ service = NoService
    /\ "lifecycle" \in except \/ lifecycle = NoLifecycle
    /\ "user_cache" \in except \/ user_cache = NoUserCache

(* A scheduler over the user's personas, called again and again with any  *)
(* arguments                                                              *)
InitScheduler ==
    /\ IdleSession
    /\ scheduler \in { SchedulerObject(BuildScheduler(Personas, n)) : n \in 0..2 }
    /\ NoHarness({ "scheduler" })

NextScheduler ==
    \E context_tags \in TagChoices, last_speaker \in SpeakerChoices,
       is_user_message \in BOOLEAN, noise \in NoiseChoices :
        SchedulerNextTurn(context_tags, last_speaker, is_user_message, noise)

SchedulerSpec == InitScheduler /\ [][NextScheduler]_vars

(* The RagQuery tool called by the LLM while the runtime sets and clears  *)
(* the retrieval context                                                  *)
InitRag ==
    /\ IdleSession
    /\ rag \in { RagObject(config) : config \in RagConfigs }
    /\ NoHarness({ "rag" })

NextRag ==
    \/ \E username \in ContextUsers, persona_id \in ContextIds :
           SetRagContext(username, persona_id)
    \/ ClearRagContext
    \/ \E args \in ToolArgs : RagSingle(args)

RagSpec == InitRag /\ [][NextRag]_vars

(* The runtime of a user whose persona rows and environment hold any of   *)
(* the values tried                                                       *)
InitUserRuntime ==
    /\ IdleSession
    /\ user_runtime \in { UserRuntimeObject(rows, env) :
                            rows \in PersonaRows, env \in EnvSettings }
    /\ NoHarness({ "user_runtime" })

NextUserRuntime ==
    \/ EnsureRuntime
    \/ \E speaker \in MemorySpeakers : MemoryAdd(speaker)
    \/ \E limit \in RecentLimits : MemoryRecent(limit)
    \/ BuildTurnScheduler
    \/ InvokePersona

UserRuntimeSpec == InitUserRuntime /\ [][NextUserRuntime]_vars

(* A reply of up to MaxStreamChars characters streamed in up to          *)
(* MaxStreamChunks chunks                                                 *)
InitReplyStream ==
    /\ IdleSession
    /\ reply_stream = NoReplyStream
    /\ NoHarness({ "reply_stream" })

NextReplyStream ==
    \/ \E text_chunk \in TextsUpTo(MaxStreamChars - reply_stream.raw_len) :
           StreamChunk(text_chunk)
    \/ StreamEnd

ReplyStreamSpec == InitReplyStream /\ [][NextReplyStream]_vars

(* A service without sessions, called up to MaxServiceCalls times for    *)
(* any of the session ids                                                 *)
InitService ==
    /\ IdleSession
    /\ service = NoService
    /\ NoHarness({ "service" })

NextService ==
    \/ \E session_id \in SessionIds, ps \in ServiceParticipants :
           ServiceCreate(session_id, ps)
    \/ \E session_id \in SessionIds, target_personas \in ClientTargets :
           ServiceEnqueue(session_id, << "hi" >>, target_personas)
    \/ \E session_id \in SessionIds : ServiceSubscribe(session_id)
    \/ \E session_id \in SessionIds : ServiceUpdateMetadata(session_id, "title")
    \/ \E session_id \in SessionIds, ps \in ServiceParticipants :
           ServiceUpdateParticipants(session_id, ps)
    \/ \E session_id \in SessionIds : ServiceStop(session_id)
    \/ \E session_id \in SessionIds : ServiceDelete(session_id)

ServiceSpec == InitService /\ [][NextService]_vars

(* One session after create_session, called up to MaxLifeCalls times by   *)
(* clients whose calls overlap                                            *)
LifeOps == { "enqueue", "subscribe", "update" }

InitLifecycle ==
    /\ IdleSession
    /\ lifecycle = CreatedSession
    /\ NoHarness({ "lifecycle" })

NextLifecycle ==
    \/ \E op \in LifeOps : LifeGet(op)
    \/ \E c \in 1..Len(lifecycle.calls) : LifeEnsure(c)
    \/ \E c \in 1..Len(lifecycle.calls) : LifePut(c)
    \/ LifeStop
    \/ LifeDelete
    \/ \E c \in 1..Len(lifecycle.calls) : LifeAwaitWorker(c)
    \/ \E c \in 1..Len(lifecycle.calls) : LifeRepoDelete(c)
    \/ \E w \in LifeWorkerIds : LifeWorkerCancelled(w)
    \/ \E w \in LifeWorkerIds : LifeWorkerGet(w)
    \/ \E w \in LifeWorkerIds : LifeWorkerTurnEnd(w)

LifecycleSpec == InitLifecycle /\ [][NextLifecycle]_vars

(* Up to MaxCallers invocations of the adapter for two users whose        *)
(* personas may change meanwhile                                          *)
InitUserCache ==
    /\ IdleSession
    /\ user_cache = NoUserCache
    /\ NoHarness({ "user_cache" })

NextUserCache ==
    \/ \E username \in Usernames : CacheInvoke(username)
    \/ \E c \in 1..Len(user_cache.callers) : CacheAcquire(c)
    \/ \E c \in 1..Len(user_cache.callers) : CacheLoad(c)
    \/ \E c \in 1..Len(user_cache.callers) : CacheEnter(c)
    \/ \E c \in 1..Len(user_cache.callers) : CacheEnterFails(c)
    \/ \E username \in Usernames : PersonasUpdated(username)

UserCacheSpec == InitUserCache /\ [][NextUserCache]_vars

----------------------------------------------------------------------------
(* Properties of the event sequence and of the turns *)

EventIdx == 1..Len(emitted)

StartedIds ==
    { emitted[i].message_id : i \in { j \in EventIdx : emitted[j].event = "agent.start" } }

CountOf(type, m) ==
    Cardinality({ i \in EventIdx : emitted[i].event = type /\ emitted[i].message_id = m })

(* a session.stopped or session.interrupted follows the agent.start of m *)
StopFollowsStart(m) ==
    \E i, j \in EventIdx :
        /\ i < j
        /\ emitted[i].event = "agent.start" /\ emitted[i].message_id = m
        /\ emitted[j].event \in { "session.stopped", "session.interrupted" }

(* no worker is inside a stream: the event sequence so far is complete *)
NoTurnRunning ==
    \A w \in WorkerIds : ~(tasks[w].status = "alive" /\ tasks[w].pc \in StreamPcs)

(* C1: once no turn is running, every message id has as many agent.start  *)
(* as agent.end events, unless a session.stopped or session.interrupted   *)
(* came after its agent.start; whatever the LLM and the store did.        *)
C1_StartsMatchEnds ==
    NoTurnRunning =>
        \A m \in StartedIds :
            \/ CountOf("agent.start", m) = CountOf("agent.end", m)
            \/ StopFollowsStart(m)

(* a service call is over, or parked for good *)
CallOver(c) == calls[c].pc \in { "returned", "raised", "queued" }

StoredBy(c) == { i \in 1..Len(store) : store[i].call = c }

QueuedBy(c) == { i \in 1..Len(request_queue) : request_queue[i].call = c }

(* C3: a stop command that arrived while the session was streaming is     *)
(* never in the message store, never on the request queue, and never      *)
(* given a turn.                                                          *)
C3_StopNotStoredNorQueued ==
    \A c \in 1..Len(calls) :
        calls[c].forced =>
            /\ StoredBy(c) = {}
            /\ QueuedBy(c) = {}
            /\ ~Contains(turn_order, c)

(* C3 happens: a stop command has taken the force_stop branch and the     *)
(* call is over, with an earlier message in the store                     *)
C3_Witness ==
    \E c \in 1..Len(calls) :
        /\ calls[c].forced
        /\ calls[c].pc = "returned"
        /\ IsStopCmd(calls[c].content)
        /\ store # << >>

StorePos(c) == CHOOSE i \in 1..Len(store) : store[i].call = c

(* C4: the turns are taken in the order in which the messages were        *)
(* appended to the store, and no message is given two turns.              *)
C4_TurnsInStoreOrder ==
    \A i, j \in 1..Len(turn_order) :
        i < j =>
            /\ turn_order[i] # turn_order[j]
            /\ StorePos(turn_order[i]) < StorePos(turn_order[j])

(* nothing can move any more: every call is over and no worker is alive *)
Quiescent ==
    /\ \A c \in 1..Len(calls) : CallOver(c)
    /\ \A w \in WorkerIds : tasks[w].status # "alive"

(* a force_stop has cancelled a running turn *)
TurnWasStopped ==
    \E i \in EventIdx : emitted[i].event = "session.stopped" /\ emitted[i].inflight # {}

(* C5: after a force_stop that cancelled a running turn, the program does *)
(* not come to rest with a message left on the request queue.             *)
C5_QueueDrainsAfterStop ==
    (TurnWasStopped /\ Quiescent) => request_queue = << >>

(* the turn is over and its worker neither failed nor was cancelled *)
TurnEnded(t) == \A w \in WorkerIds : tasks[w].turn # t

InterruptedEmitted(t) ==
    \E i \in EventIdx :
        /\ emitted[i].event = "session.interrupted"
        /\ emitted[i].turn = t
        /\ emitted[i].reason = "user_message_pending"

(* C6: with the conversation loop, a turn that was streaming when an      *)
(* ordinary user message arrived does not end without having emitted      *)
(* session.interrupted(user_message_pending).                             *)
C6_InterruptEndsTurn ==
    adapter = "nemo" =>
        \A c \in 1..Len(calls) :
            \A t \in calls[c].during :
                TurnEnded(t) => InterruptedEmitted(t)

(* the agent.start that opened the message event i belongs to: the last   *)
(* agent.start of the same turn before i (0: none)                        *)
OpeningStart(i) ==
    LET starts == { j \in 1..(i - 1) : /\ emitted[j].event = "agent.start"
                                       /\ emitted[j].turn = emitted[i].turn }
    IN  IF starts = {} THEN 0 ELSE CHOOSE j \in starts : \A k \in starts : k <= j

(* C7: every agent.chunk and agent.end carries the message id that the    *)
(* opening agent.start of its message carried (an event without the id    *)
(* has message_id 0, and then no session_id either).                      *)
C7_IdsCarried ==
    \A i \in EventIdx :
        emitted[i].event \in { "agent.chunk", "agent.end" } =>
            /\ OpeningStart(i) # 0
            /\ emitted[i].message_id # 0
            /\ emitted[i].message_id = emitted[OpeningStart(i)].message_id

(* the last agent.start or agent.end of the same turn before event i *)
LastBracket(i) ==
    LET marks == { j \in 1..(i - 1) : /\ emitted[j].event \in { "agent.start", "agent.end" }
                                      /\ emitted[j].turn = emitted[i].turn }
    IN  IF marks = {} THEN 0 ELSE CHOOSE j \in marks : \A k \in marks : k <= j

(* C8: before every agent.chunk its turn has published an agent.start,    *)
(* and no agent.end since: the chunk lies inside an open message.         *)
C8_ChunksInsideMessage ==
    \A i \in EventIdx :
        emitted[i].event = "agent.chunk" =>
            /\ LastBracket(i) # 0
            /\ emitted[LastBracket(i)].event = "agent.start"

(* C8 happens: a turn of the conversation loop has published a second     *)
(* message with a chunk in it, after the first one was closed             *)
C8_Witness ==
    \E i, j, k \in EventIdx :
        /\ i < j /\ j < k
        /\ emitted[i].event = "agent.end"
        /\ emitted[j].event = "agent.start" /\ emitted[j].turn = emitted[i].turn
        /\ emitted[k].event = "agent.chunk" /\ emitted[k].turn = emitted[i].turn
        /\ adapter = "nemo"

----------------------------------------------------------------------------
(* Properties of the subscribers *)

(* C2: what a subscriber has received never holds, after the              *)
(* session.stopped of a force_stop issued while streaming, an event of a  *)
(* turn that was in flight at that force_stop.                            *)
C2_NothingAfterStopped ==
    \A s \in SubIds :
        \A i, j \in 1..Len(subs[s].received) :
            (/\ i < j
             /\ subs[s].received[i].event = "session.stopped"
             /\ subs[s].received[i].was_streaming)
            => subs[s].received[j].turn \notin subs[s].received[i].inflight

(* C9: what a subscriber has received is in emission order: the events    *)
(* are events of the emitted sequence, at increasing positions.           *)
C9_ReceivedInEmissionOrder ==
    \A s \in SubIds :
        /\ \A i \in 1..Len(subs[s].received) :
              /\ subs[s].received[i].seq \in EventIdx
              /\ subs[s].received[i] = emitted[subs[s].received[i].seq]
        /\ \A i, j \in 1..Len(subs[s].received) :
              i < j => subs[s].received[i].seq < subs[s].received[j].seq

(* C9 happens: a subscriber has received the session.stopped of a         *)
(* force_stop between events published by the worker                      *)
C9_Witness ==
    \E s \in SubIds :
        \E i, j, k \in 1..Len(subs[s].received) :
            /\ i < j /\ j < k
            /\ subs[s].received[i].event = "agent.chunk"
            /\ subs[s].received[j].event = "session.stopped"
            /\ subs[s].received[k].event = "agent.start"

(* C10: for a registered subscriber, what it has received followed by     *)
(* what waits in its queue is exactly the part of the emitted sequence    *)
(* published since it subscribed: each such event once, none from before. *)
C10_ExactlyOnceSinceSubscribe ==
    \A s \in SubIds :
        subs[s].state = "open" =>
            /\ subs[s].since <= Len(emitted)
            /\ subs[s].received \o subs[s].queue
                   = SubSeq(emitted, subs[s].since + 1, Len(emitted))

(* C10 happens: two subscribers are registered, the second one came late, *)
(* and both have received the same event                                  *)
C10_Witness ==
    /\ \A s \in SubIds : subs[s].state = "open"
    /\ subs[1].since = 0
    /\ subs[2].since > 0
    /\ subs[1].queue # << >>
    /\ \E i \in 1..Len(subs[1].received) :
          \E j \in 1..Len(subs[2].received) : subs[1].received[i] = subs[2].received[j]

----------------------------------------------------------------------------
(* Properties of the scheduler *)

(* the personas that were cooling down when the latest call was made *)
CoolingBefore ==
    { p \in DOMAIN scheduler.before.st :
        scheduler.before.turn - scheduler.before.st[p].last_turn <= DefaultCooldown }

(* C12: whatever calls were made before, next_turn returns no persona     *)
(* whose turn - last_turn is within its cooldown unless that persona is   *)
(* in the context_tags of the call; the top candidate picked when nobody  *)
(* was chosen on a user message is no exception.                          *)
C12_NoSpeakerInCooldown ==
    scheduler.called =>
        \A i \in 1..Len(scheduler.speakers) :
            scheduler.speakers[i] \in CoolingBefore =>
                Contains(scheduler.context_tags, scheduler.speakers[i])

(* the fallback picked a speaker while another persona, not tagged, was   *)
(* cooling down                                                           *)
C12_Witness ==
    /\ scheduler.called
    /\ scheduler.fallback
    /\ scheduler.speakers # << >>
    /\ \E p \in CoolingBefore : ~Contains(scheduler.context_tags, p)

----------------------------------------------------------------------------
(* Properties of the RagQuery tool *)

(* two calls made under the same retrieval context *)
SameContext(a, b) ==
    /\ a.user_context = b.user_context
    /\ a.persona_context = b.persona_context

(* C19: the user and the persona whose collection RagQuery reads are      *)
(* fixed by the retrieval context and the tool configuration: two calls   *)
(* under the same context retrieve for the same (username, persona_id),   *)
(* or both retrieve nothing, whatever arguments the LLM supplied.         *)
C19_TargetIgnoresToolInput ==
    \A i, j \in 1..Len(rag.log) :
        SameContext(rag.log[i], rag.log[j]) =>
            /\ rag.log[i].target.retrieved = rag.log[j].target.retrieved
            /\ rag.log[i].target.username = rag.log[j].target.username
            /\ rag.log[i].target.persona_id = rag.log[j].target.persona_id

(* two retrievals under one context, for alice's persona 1, the second    *)
(* one asked by the LLM to read bob's persona 2                           *)
C19_Witness ==
    /\ Len(rag.log) = 2
    /\ SameContext(rag.log[1], rag.log[2])
    /\ rag.log[1].user_context = "alice" /\ rag.log[1].persona_context = 1
    /\ rag.log[1].args.username = NoUser /\ rag.log[1].args.persona_id = NoPersonaId
    /\ rag.log[2].args.username = "bob" /\ rag.log[2].args.persona_id = 2
    /\ rag.log[1].target.retrieved /\ rag.log[2].target.retrieved

----------------------------------------------------------------------------
(* Properties of the conversation loop *)

(* the workers that are inside a round, their speaker being served *)
InRound == { w \in WorkerIds : tasks[w].status = "alive" /\ tasks[w].pc \in { "llm", "persist" } }

(* the personas the user message names with an explicit @handle *)
Mentioned(l) == Range(ExplicitMentions(l.user_message, << >>))

(* C11: when the user message names a non-empty subset M of the session's *)
(* participants by @handle, the speakers of round 0 are exactly M,        *)
(* whatever the proactivity of the participants that are not named.       *)
C11_RoundZeroSpeakersAreMentioned ==
    \A w \in InRound :
        LET l == tasks[w].l
        IN  /\ l.exchange_round = 0
            /\ Mentioned(l) # {}
            /\ Mentioned(l) \subseteq Range(participants)
            => Range(l.speakers) = Mentioned(l)

(* the persona whose reply worker w is producing *)
Speaking(w) == tasks[w].l.speakers[tasks[w].l.sp]

(* C13: in a turn whose message carries user-selected personas, a persona *)
(* that is neither selected nor mentioned in the user message starts a    *)
(* message only when every selected persona has responded, and no round   *)
(* is run once a round has completed with all selected personas having    *)
(* responded.                                                             *)
C13_SelectedRespondFirst ==
    \A w \in InRound :
        LET l == tasks[w].l
            selected == Range(l.user_selected)
            named == Range(ExtractTags(l.user_message, Personas))
        IN  selected # {} =>
                /\ Speaking(w) \notin (selected \cup named) => selected \subseteq l.responded
                /\ ~(selected \subseteq l.responded_before)

(* a turn for the selected Ben, whose message names Ada, has ended after  *)
(* one round with the replies of both, although more rounds were allowed  *)
C13_Witness ==
    /\ participants = << "Ben" >>
    /\ settings.max_exchanges_per_turn > 1 /\ settings.stop_patience > 1
    /\ \E i, j \in EventIdx :
           /\ i < j
           /\ emitted[i].event = "agent.end" /\ emitted[i].sender = "Ada"
           /\ emitted[j].event = "agent.end" /\ emitted[j].sender = "Ben"
           /\ emitted[j].content = << "hi" >>
    /\ InRound = {}
    /\ ~streaming

(* C14: a round being run is one of the first max(1,                      *)
(* max_exchanges_per_turn) scheduler consultations of its turn, and the   *)
(* first and only one when the user message is soft-closing; the rounds   *)
(* of a soft-closing turn end with its first round, whatever was said.    *)
C14_RoundsBounded ==
    \A w \in InRound :
        LET l == tasks[w].l
        IN  /\ l.exchange_round + 1 <= Max(1, settings.max_exchanges_per_turn)
            /\ IsSoftClosing(l.user_message) => l.exchange_round = 0

(* a soft-closing turn is over after a single reply that is no farewell,  *)
(* under settings that give another message four rounds                   *)
C14_Witness ==
    /\ participants = << >>
    /\ settings.max_exchanges_per_turn = MaxRounds
    /\ settings.max_agents_per_turn = 1
    /\ Len(store) = 2
    /\ IsSoftClosing(store[1].content)
    /\ store[2].content = << "hi" >>
    /\ InRound = {}
    /\ ~streaming
    /\ \A i \in EventIdx : emitted[i].event # "session.stopped"

(* the average of the heat window is below the heat threshold *)
LowHeat(l) ==
    SumSeq(l.heat_window) * 100 < HeatThresholdPct * HeatScale * Len(l.heat_window)

(* C15: in a turn that is not soft-closing, whatever the patience, no     *)
(* further round is run after a round that left high_sim_streak >= 2, or  *)
(* that left the heat window full with an average below the threshold.    *)
C15_SmartStopEndsTurn ==
    \A w \in InRound :
        LET l == tasks[w].l
        IN  /\ ~l.soft_closing
            /\ l.exchange_round > 0
            /\ settings.stop_patience >= 1
            => /\ l.high_sim_streak < 2
               /\ ~(Len(l.heat_window) = settings.stop_patience /\ LowHeat(l))

(* the invocation whose LLM call failed holds the synthetic token as its  *)
(* only token and as its reply                                            *)
FailedReplyIsNotice ==
    \A w \in InRound :
        LET tk == tasks[w]
        IN  tk.l.llm_error # "" =>
                /\ tk.l.chunk_count = 1
                /\ tk.l.full_reply = NoticeFor(tk.l.llm_error)
                /\ tk.pc = "persist" => tk.pending.content = NoticeFor(tk.l.llm_error)

(* a message with a synthetic token has no other chunk, and its agent.end *)
(* carries that token                                                     *)
NoticeIsWholeMessage ==
    \A i \in EventIdx :
        emitted[i].event = "agent.chunk" /\ emitted[i].content \in Notices =>
            \A j \in EventIdx :
                /\ emitted[j].turn = emitted[i].turn
                /\ OpeningStart(j) = OpeningStart(i)
                => /\ emitted[j].event = "agent.chunk" => j = i
                   /\ emitted[j].event = "agent.end" =>
                          emitted[j].content = emitted[i].content

(* the step that publishes the agent.end of a failed invocation starts    *)
(* the next speaker of the round, if there is one                         *)
NextSpeakerAfterFailure ==
    \A w \in WorkerIds :
        LET tk == tasks[w]
        IN  /\ w \in InRound
            /\ tk.l.llm_error # ""
            /\ tk.l.sp < Len(tk.l.speakers)
            /\ emitted' # emitted
            => /\ tasks'[w].pc = "llm"
               /\ tasks'[w].l.exchange_round = tk.l.exchange_round
               /\ tasks'[w].l.sp = tk.l.sp + 1
               /\ emitted'[Len(emitted')].event = "agent.start"
               /\ emitted'[Len(emitted')].sender = tk.l.speakers[tk.l.sp + 1]

(* C18: when the LLM call of a persona fails, the invoker yields one      *)
(* synthetic error token and nothing else for that invocation, the token  *)
(* is the content of the persona's agent.end, and the speakers that       *)
(* follow it in the round are invoked all the same.                       *)
C18_FailedCallYieldsNotice ==
    /\ [](FailedReplyIsNotice /\ NoticeIsWholeMessage)
    /\ [][NextSpeakerAfterFailure]_vars

(* Ada's call failed, her agent.end carries the token, and Ben, the       *)
(* second speaker of the round, is being invoked                          *)
C18_Witness ==
    \E w \in InRound :
        /\ tasks[w].l.speakers = << "Ada", "Ben" >>
        /\ tasks[w].l.sp = 2
        /\ \E i \in EventIdx :
               /\ emitted[i].event = "agent.end"
               /\ emitted[i].sender = "Ada"
               /\ emitted[i].content \in Notices
               /\ emitted[i].persisted

----------------------------------------------------------------------------
(* Properties of the message store *)

(* the agent messages of the store, and the agent.end events that carry   *)
(* a persisted_message_id                                                 *)
StoredAgents == { k \in 1..Len(store) : store[k].sender # "user" }

PersistedEnds == { i \in EventIdx : emitted[i].event = "agent.end" /\ emitted[i].persisted }

(* C16: the store holds no agent message with empty content, it holds as  *)
(* many agent messages as agent.end events were handled with a stored     *)
(* record, sender and content being those of the events in their order,   *)
(* and no two of these events are for the same message: nothing, the      *)
(* flush at the end of the turn included, stores a message twice.         *)
C16_StoredOnceAtEnd ==
    /\ \A k \in StoredAgents : store[k].content # << >>
    /\ Cardinality(StoredAgents) = Cardinality(PersistedEnds)
    /\ \A k \in StoredAgents :
           \E i \in PersistedEnds :
               /\ emitted[i].sender = store[k].sender
               /\ emitted[i].content = store[k].content
               /\ Cardinality({ j \in StoredAgents : j <= k })
                  = Cardinality({ j \in PersistedEnds : j <= i })
    /\ \A i, j \in PersistedEnds :
           emitted[i].message_id = emitted[j].message_id => i = j

(* a reply was stored at its explicit agent.end and its turn is over, the *)
(* flush behind it                                                        *)
C16_Witness ==
    /\ StoredAgents # {}
    /\ \E i \in PersistedEnds :
           \A w \in WorkerIds :
               tasks[w].status = "alive" => tasks[w].pc = "get" /\ tasks[w].turn # emitted[i].turn
    /\ ~streaming

(* what subscriber s has been handed so far, taken or still queued *)
Delivered(s) == subs[s].received \o subs[s].queue

HasEvent(evs, type, turn) ==
    \E k \in 1..Len(evs) : evs[k].event = type /\ evs[k].turn = turn

(* C17: once add_message has failed in the handler of an agent.end, the   *)
(* worker being dead of it, every subscriber that was handed the          *)
(* agent.start of that turn has been handed its agent.end as well.        *)
C17_EndDeliveredOnStoreFailure ==
    \A w \in WorkerIds :
        tasks[w].status = "failed" =>
            \A s \in SubIds :
                subs[s].state = "open" /\ HasEvent(Delivered(s), "agent.start", tasks[w].turn)
                => HasEvent(Delivered(s), "agent.end", tasks[w].turn)

----------------------------------------------------------------------------
(* Properties of a session without participants *)

(* C20: in a session with zero participants the conversation loop yields  *)
(* nothing for a user message: no agent.start, agent.chunk or agent.end   *)
(* and no session.stopped is published, whatever personas the user owns.  *)
C20_NoEventsWithoutParticipants ==
    participants = << >> =>
        \A i \in EventIdx :
            emitted[i].event \notin AgentEvents \cup { "session.stopped" }

----------------------------------------------------------------------------
(* Properties of the runtime of a user *)

(* C21: when every persona of the user has max_agents_per_turn <= 0 (0    *)
(* as well as -1), the scheduler built for a turn has max_agents equal to *)
(* the number of personas: no smaller default cap applies.                *)
C21_NonPositiveCapIsAllPersonas ==
    (/\ user_runtime.built
     /\ \A p \in PersonaNames : user_runtime.rows[p].max_agents_per_turn <= 0)
        => user_runtime.max_agents = Len(Personas)

(* the history a persona invocation should be given under window w *)
WindowOf(messages, w) == IF w > 0 THEN LastN(messages, w) ELSE messages

(* C22: the history given to a persona invocation is the last             *)
(* memory_window entries of the turn's memory when memory_window > 0 and  *)
(* the whole memory when memory_window <= 0; memory_window 0 and -1 give  *)
(* the same history.                                                      *)
C22_HistoryIsMemoryWindow ==
    user_runtime.invoked =>
        /\ user_runtime.history =
               WindowOf(user_runtime.memory_then, user_runtime.settings.memory_window)
        /\ DeliveredHistory(user_runtime.memory_then, 0) =
               DeliveredHistory(user_runtime.memory_then, -1)

----------------------------------------------------------------------------
(* Properties of the special-token filter *)

(* C23: the output of the special-token filter holds no match of          *)
(* <[|｜][^|｜]*[|｜]>, so no agent.chunk content and no agent.end content *)
(* built from filtered chunks holds one.                                  *)
C23_NoSpecialTokenDelivered ==
    /\ \A i \in 1..Len(reply_stream.chunks) : ~HasSpecialToken(reply_stream.chunks[i])
    /\ reply_stream.ended => ~HasSpecialToken(reply_stream.end_content)

----------------------------------------------------------------------------
(* Properties of the session service *)

(* C24: a call (enqueue message, subscribe, update metadata, update       *)
(* participants, stop, delete) for a session id that does not exist fails *)
(* with SessionNotFound and leaves the records, the stored messages and   *)
(* the runtimes with their workers and queues as they were.               *)
C24_MissingSessionIsNotFound ==
    (service.last.op # "" /\ service.last.op # "create" /\ ~service.last.existed)
        => /\ service.last.result = "SessionNotFound"
           /\ ServiceState(service) = service.last.before

(* C25: a target_personas list the client sends with a message is the     *)
(* target_personas of the message put on the request queue; only when the *)
(* client sends none are the handles of the participants attached.        *)
C25_ClientTargetsReachLoop ==
    \A i \in SessionIds :
        \A k \in 1..Len(service.runtimes[i].queue) :
            LET msg == service.runtimes[i].queue[k]
            IN  msg.target_personas =
                    IF msg.client_targets # NoTargets THEN msg.client_targets
                    ELSE [j \in 1..Len(msg.participants) |-> Handle(msg.participants[j])]

----------------------------------------------------------------------------
(* Further properties of the scheduler *)

(* C26: whatever calls were made before, a next_turn call with            *)
(* is_user_message = true on a scheduler that holds a persona returns at  *)
(* least one speaker.                                                     *)
C26_UserMessageGetsSpeaker ==
    (scheduler.called /\ scheduler.is_user_message /\ DOMAIN scheduler.before.st # {})
        => scheduler.speakers # << >>

(* the call found a mentioned persona that had not just spoken *)
ForcedMode == \E i \in 1..Len(scheduler.ranked) : scheduler.ranked[i].score >= 10000

(* a mentioned persona the call had to return *)
MustReply(p) ==
    /\ p \in DOMAIN scheduler.before.st
    /\ scheduler.before.turn - scheduler.before.st[p].last_turn > 0

(* C27: in forced mode next_turn returns the mentioned personas in the    *)
(* order of context_tags, whatever the order in which the personas were   *)
(* registered.                                                            *)
C27_ForcedInMentionOrder ==
    (scheduler.called /\ ForcedMode)
        => scheduler.speakers = SelectSeq(scheduler.context_tags, MustReply)

(* C28 as claimed: a call never returns more speakers than max_agents,    *)
(* forced mode or not.                                                    *)
C28_NeverMoreThanMaxAgents ==
    scheduler.called => Len(scheduler.speakers) <= scheduler.before.max_agents

(* C28 amended: a call in which no mentioned persona has to reply never   *)
(* returns more speakers than max_agents; in forced mode every mentioned  *)
(* persona that has to reply is returned whatever max_agents is.          *)
C28_MaxAgentsUnlessForced ==
    scheduler.called =>
        IF ForcedMode
        THEN Range(scheduler.speakers) = { p \in Range(scheduler.context_tags) : MustReply(p) }
        ELSE Len(scheduler.speakers) <= scheduler.before.max_agents

(* two candidates were ranked, neither mentioned, and the call returned   *)
(* as many speakers as max_agents allows                                  *)
C28_Witness ==
    /\ scheduler.called
    /\ ~ForcedMode
    /\ Len(scheduler.ranked) = 2
    /\ scheduler.before.max_agents = 1
    /\ Len(scheduler.speakers) = 1
    /\ ~scheduler.fallback

(* the score the candidate named p had in the call *)
ScoreOf(p) ==
    (CHOOSE c \in Range(scheduler.ranked) : c.name = p).score

(* C29: in a call without forced mode that chose its speakers by the      *)
(* thresholds, the top-ranked candidate is selected exactly if its score  *)
(* is >= 0.4, and the k-th speaker selected, k >= 2, has a score >=       *)
(* threshold + 0.1 * (k - 1), the threshold being 0.5, or 0.3 once        *)
(* silence_count has reached silence_threshold.                           *)
C29_SelectionThresholds ==
    (scheduler.called /\ ~ForcedMode /\ ~scheduler.fallback /\ scheduler.ranked # << >>)
        => /\ Contains(scheduler.speakers, scheduler.ranked[1].name)
                 <=> scheduler.ranked[1].score >= 40
           /\ scheduler.threshold =
                 (IF scheduler.before.silence_count >= SilenceThreshold THEN 30 ELSE 50)
           /\ \A k \in 2..Len(scheduler.speakers) :
                 ScoreOf(scheduler.speakers[k]) >= scheduler.threshold + 10 * (k - 1)

----------------------------------------------------------------------------
(* Further properties of the conversation loop *)

(* C30: within a turn no persona is twice among the speakers of a round,  *)
(* and in a round after round 0 no persona starts or produces a message   *)
(* while it is the last speaker: neither the first persona started in the *)
(* round nor the persona whose reply is being produced.                   *)
C30_NoSelfReply ==
    \A w \in InRound :
        LET l == tasks[w].l
        IN  /\ \A i, j \in 1..Len(l.speakers) : i < j => l.speakers[i] # l.speakers[j]
            /\ l.exchange_round > 0 =>
                   /\ Speaking(w) # l.last_speaker
                   /\ l.round_speakers[1] # l.last_speaker_before

(* a round after round 0 in which a persona replies to another persona    *)
C30_Witness ==
    \E w \in InRound :
        LET l == tasks[w].l
        IN  /\ l.exchange_round > 0
            /\ l.last_speaker \in PersonaNames
            /\ Speaking(w) \in PersonaNames \ { l.last_speaker }
            /\ l.round_speakers[1] = Speaking(w)

----------------------------------------------------------------------------
(* Properties of the closing phrase *)

(* the agent.end events whose reply matches the closing pattern *)
ClosingEnds ==
    { i \in EventIdx : emitted[i].event = "agent.end" /\ IsClosingReply(emitted[i].content) }

(* the session.stopped events the loop yields for a closing phrase *)
ClosingStops ==
    { k \in EventIdx : /\ emitted[k].event = "session.stopped"
                       /\ emitted[k].reason = "closing_phrase" }

(* C31 as stated: once an agent reply matches the closing pattern, no     *)
(* further agent.start is emitted in that turn, neither in the same round *)
(* nor in a later one.                                                    *)
C31_NoStartAfterClosing ==
    \A i \in ClosingEnds :
        \A j \in EventIdx :
            j > i /\ emitted[j].turn = emitted[i].turn => emitted[j].event # "agent.start"

(* C31 amended: a reply that matches the closing pattern ends its turn    *)
(* with its round.  No round is begun after a round that held such a      *)
(* reply; session.stopped(closing_phrase) comes right after an agent.end  *)
(* of its turn, after a closing reply of that turn, and is the last event *)
(* of the turn; and a turn that has run to its end with a closing reply   *)
(* has emitted it.                                                        *)
C31_ClosingEndsTurnAfterRound ==
    /\ \A w \in InRound : ~tasks[w].l.closed_before
    /\ \A k \in ClosingStops :
           /\ k > 1
           /\ emitted[k - 1].event = "agent.end"
           /\ emitted[k - 1].turn = emitted[k].turn
           /\ \E i \in ClosingEnds : i < k /\ emitted[i].turn = emitted[k].turn
           /\ \A j \in EventIdx : j > k => emitted[j].turn # emitted[k].turn
    /\ \A w \in WorkerIds :
           tasks[w].status = "alive" /\ tasks[w].pc = "get" =>
               \A i \in ClosingEnds :
                   \E k \in ClosingStops : k > i /\ emitted[k].turn = emitted[i].turn

(* Ada's reply was a farewell, Ben replied after her in the same round,   *)
(* and the turn has ended with session.stopped although more rounds were  *)
(* allowed                                                                *)
C31_Witness ==
    /\ settings.max_exchanges_per_turn > 1
    /\ \E i, j, k \in EventIdx :
           /\ i < j /\ j < k
           /\ i \in ClosingEnds /\ emitted[i].sender = "Ada"
           /\ emitted[j].event = "agent.end" /\ emitted[j].sender = "Ben"
           /\ ~IsClosingReply(emitted[j].content)
           /\ k \in ClosingStops
    /\ InRound = {}
    /\ ~streaming

----------------------------------------------------------------------------
(* Properties of the flush of the trackers *)

(* no worker is alive in turn t: the turn is over, however it ended *)
TurnOver(t) == \A w \in WorkerIds : ~(tasks[w].status = "alive" /\ tasks[w].turn = t)

(* C32: once a turn is over, however it ended, every agent.start it       *)
(* published is followed by an agent.end of the same turn for the same    *)
(* sender and message, explicit or synthesized from the tracker, that is  *)
(* marked as persisted when its content is not empty.                     *)
C32_EndForEveryStartedSender ==
    \A i \in EventIdx :
        emitted[i].event = "agent.start" /\ TurnOver(emitted[i].turn) =>
            \E j \in EventIdx :
                /\ j > i
                /\ emitted[j].event = "agent.end"
                /\ emitted[j].turn = emitted[i].turn
                /\ emitted[j].sender = emitted[i].sender
                /\ emitted[j].message_id = emitted[i].message_id
                /\ emitted[j].content # << >> => emitted[j].persisted

----------------------------------------------------------------------------
(* Properties of the content of a message *)

(* the contents of the agent.chunk events of the message that event j     *)
(* closes, in the order of their emission                                 *)
MessageText(j) ==
    LET F[k \in 0..(j - 1)] ==
            IF k = 0 \/ k <= OpeningStart(j) THEN << >>
            ELSE F[k - 1] \o (IF /\ emitted[k].event = "agent.chunk"
                                 /\ emitted[k].turn = emitted[j].turn
                              THEN emitted[k].content ELSE << >>)
    IN  F[j - 1]

(* C33: the content of each agent.end equals the concatenation, in order, *)
(* of the contents of the agent.chunk events emitted for its message,     *)
(* also when the persona stream raised after chunks had been emitted.     *)
C33_EndIsConcatenationOfChunks ==
    \A j \in EventIdx :
        /\ emitted[j].event = "agent.end"
        /\ OpeningStart(j) # 0
        /\ emitted[OpeningStart(j)].sender = emitted[j].sender
        => emitted[j].content = MessageText(j)

----------------------------------------------------------------------------
(* Properties of the interrupt flag *)

(* the turns that were streaming when an ordinary user message was        *)
(* accepted: the turns an interrupt was requested for                     *)
InterruptedTurns == UNION { calls[c].during : c \in 1..Len(calls) }

(* C34: a turn emits session.interrupted only if a user message was       *)
(* accepted while that same turn was streaming: a request raised during   *)
(* an earlier turn is not consumed by a later one.                        *)
C34_InterruptedOnlyByOwnRequest ==
    \A i \in EventIdx :
        emitted[i].event = "session.interrupted" => emitted[i].turn \in InterruptedTurns

----------------------------------------------------------------------------
(* Properties of the speakers of a session *)

(* C37: every persona that emits an agent message in a turn of a session  *)
(* that has participants is one of them: the scheduler of the turn        *)
(* chooses only among the personas attached to the session.               *)
C37_SpeakersAreParticipants ==
    participants # << >> =>
        \A i \in EventIdx :
            emitted[i].event \in { "agent.start", "agent.end" } =>
                emitted[i].sender \in Range(participants)

----------------------------------------------------------------------------
(* Properties of the conversation memory *)

(* C38: recent(n) returns the last n entries in order for n > 0, all      *)
(* entries when n exceeds the length, and the full history for every      *)
(* n <= 0, negative n included.                                           *)
C38_RecentIsLastNOrAll ==
    user_runtime.recalled =>
        LET messages == user_runtime.memory_recalled
            n == user_runtime.limit
        IN  user_runtime.recent =
                IF n <= 0 \/ n >= Len(messages) THEN messages
                ELSE [i \in 1..n |-> messages[Len(messages) - n + i]]

----------------------------------------------------------------------------
(* Properties of the memory of a turn *)

(* the entries of the memory of worker w's turn that are the triggering   *)
(* user message                                                           *)
TriggerEntries(w) ==
    LET memory == tasks[w].l.memory
    IN  { k \in 1..Len(memory) : /\ memory[k].sender = tasks[w].msg.sender
                                 /\ memory[k].content = tasks[w].msg.content }

(* C39: in the first turn of a session the memory built for the turn      *)
(* holds the triggering user message exactly once, as the last entry      *)
(* before the agent replies of the turn.                                  *)
C39_TriggerOnceInMemory ==
    \A w \in InRound :
        LET memory == tasks[w].l.memory
        IN  /\ Cardinality(TriggerEntries(w)) = 1
            /\ \A k \in 1..Len(memory) :
                   k \in TriggerEntries(w) <=>
                       /\ memory[k].sender \notin PersonaNames
                       /\ \A j \in (k + 1)..Len(memory) : memory[j].sender \in PersonaNames

----------------------------------------------------------------------------
(* Properties of the worker tasks of a session under concurrent calls *)

(* the worker tasks that are alive with no cancellation pending, and      *)
(* those of them that are inside a turn                                   *)
LiveWorkers ==
    { w \in LifeWorkerIds : /\ lifecycle.workers[w].status = "alive"
                            /\ ~lifecycle.workers[w].cancel_req }

TurnsInFlight == { w \in LiveWorkers : lifecycle.workers[w].pc = "turn" }

(* C35: at every moment the session has at most one live worker task and  *)
(* at most one turn in flight, however the calls made on it interleave.   *)
C35_OneLiveWorker ==
    /\ Cardinality(LiveWorkers) <= 1
    /\ Cardinality(TurnsInFlight) <= 1

(* C40: once delete_session has completed, the service holds no runtime   *)
(* under the session id, no worker task of the session is alive and no    *)
(* message waits in a queue of the session, also when other calls for the *)
(* session overlap with the deletion.                                     *)
C40_NothingLeftAfterDelete ==
    (\E c \in 1..Len(lifecycle.calls) :
        lifecycle.calls[c].op = "delete" /\ lifecycle.calls[c].pc = "done")
    => /\ lifecycle.entry = 0
       /\ \A w \in LifeWorkerIds : lifecycle.workers[w].status # "alive"
       /\ \A r \in LifeRuntimeIds : lifecycle.runtimes[r].queue = 0

----------------------------------------------------------------------------
(* Properties of the per-user runtime cache *)

(* the runtimes constructed for a user, those that were entered, and the  *)
(* invocations of the user that failed in __aenter__                      *)
BuiltFor(username) ==
    { r \in 1..Len(user_cache.built) : user_cache.built[r].username = username }

EnteredFor(username) == { r \in BuiltFor(username) : user_cache.built[r].entered }

FailedFor(username) ==
    { c \in 1..Len(user_cache.callers) : /\ user_cache.callers[c].username = username
                                         /\ user_cache.callers[c].pc = "failed" }

(* the invocations that have their runtime and go on with their turn *)
Served == { c \in 1..Len(user_cache.callers) : user_cache.callers[c].pc = "turn" }

(* C36: however the first invocations for a user interleave, one runtime  *)
(* of the user is constructed, entered and cached, and no second one      *)
(* unless the __aenter__ of an invocation of that user raised; every      *)
(* invocation that goes on has the cached, entered runtime of its own     *)
(* user together with the persona settings that runtime was built from.   *)
C36_OneRuntimePerUser ==
    /\ \A username \in Usernames :
           /\ Cardinality(EnteredFor(username)) <= 1
           /\ Cardinality(BuiltFor(username)) <= 1 + Cardinality(FailedFor(username))
           /\ user_cache.runtimes[username] # 0 =>
                  EnteredFor(username) = { user_cache.runtimes[username] }
    /\ \A c \in Served :
           LET caller == user_cache.callers[c]
           IN  /\ caller.runtime # 0
               /\ caller.runtime = user_cache.runtimes[caller.username]
               /\ user_cache.built[caller.runtime].username = caller.username
               /\ user_cache.built[caller.runtime].entered
               /\ caller.persona_settings = user_cache.built[caller.runtime].settings

(* two invocations of one user raced for the first runtime: one built it, *)
(* the other found it under the lock after the personas had changed in    *)
(* the database, and an invocation of the other user has its own runtime  *)
C36_Witness ==
    \E a, b, c \in Served :
        /\ user_cache.callers[a].username = user_cache.callers[b].username
        /\ user_cache.callers[c].username # user_cache.callers[a].username
        /\ ~user_cache.callers[a].waited
        /\ user_cache.callers[b].waited
        /\ user_cache.db[user_cache.callers[a].username] >
               user_cache.callers[b].persona_settings

====
